---- MODULE Spec2Model ----
(***************************************************************************)
(* Model of ip-context (viviengraffin/ip-context): the address / submask / *)
(* context arithmetic engine.                                              *)
(*                                                                         *)
(* Numbers.  The library computes on JavaScript numbers (IPv4) and BigInt  *)
(* (IPv6).  Both exceed the integers of the model checker, so a number is  *)
(* a sequence of NumLimbs limbs in base 2^16, most significant first, in   *)
(* two's complement (144 bits: enough for 2^128 and for small negatives).  *)
(* The 32-bit conversions of the JavaScript operators << | >>> are the     *)
(* operators ToInt32 and ToUint32 below.                                   *)
(*                                                                         *)
(* Strings are sequences of one-character strings.                         *)
(***************************************************************************)
EXTENDS Integers, Sequences, FiniteSets, TLC

VARIABLES conv, sm, ctx, ret, tun, obj

vars == <<conv, sm, ctx, ret, tun, obj>>

Null == "null"

\* the function as an explicit sequence: the model checker keeps a function
\* constructor unevaluated, and every later application would evaluate its
\* body again
Force(seq) == seq \o <<>>

(***************************************************************************)
(* ADDRESS_VERSIONS                                                        *)
(***************************************************************************)
Versions == {4, 6}

arrayLength(v) == IF v = 4 THEN 4 ELSE 8

bitsByItem(v) == IF v = 4 THEN 8 ELSE 16

itemMax(v) == IF v = 4 THEN 255 ELSE 65535

totalBits(v) == IF v = 4 THEN 32 ELSE 128

(***************************************************************************)
(* Limb arithmetic                                                         *)
(***************************************************************************)
Base == itemMax(6) + 1

NumLimbs == arrayLength(6) + 1

Limbs == 1..NumLimbs

Pow2Int(k) == 2^k

\* bitwise operators of JavaScript on small non-negative integers
RECURSIVE BitAnd(_, _)
BitAnd(x, y) ==
  IF x = 0 \/ y = 0 THEN 0
  ELSE (x % 2) * (y % 2) + 2 * BitAnd(x \div 2, y \div 2)

RECURSIVE BitOr(_, _)
BitOr(x, y) ==
  IF x = 0 THEN y
  ELSE IF y = 0 THEN x
  ELSE (IF x % 2 = 1 \/ y % 2 = 1 THEN 1 ELSE 0) + 2 * BitOr(x \div 2, y \div 2)

NumZero == Force([i \in Limbs |-> 0])

NumIsNeg(a) == a[1] >= Base \div 2

\* a model integer (|n| < 2^31) as a number
NumOfInt(n) ==
  Force([i \in Limbs |->
           IF i = NumLimbs THEN n % Base
           ELSE IF i = NumLimbs - 1 THEN (n \div Base) % Base
           ELSE IF n < 0 THEN Base - 1 ELSE 0])

\* limb-wise addition with carry, from the least significant limb up
RECURSIVE AddLimbs(_, _, _, _, _)
AddLimbs(a, b, i, carry, acc) ==
  IF i = 0 THEN acc
  ELSE AddLimbs(a, b, i - 1, (a[i] + b[i] + carry) \div Base,
                <<(a[i] + b[i] + carry) % Base>> \o acc)

NumAdd(a, b) == AddLimbs(a, b, NumLimbs, 0, <<>>)

NumNeg(a) == NumAdd(Force([i \in Limbs |-> Base - 1 - a[i]]), NumOfInt(1))

NumSub(a, b) == NumAdd(a, NumNeg(b))

RECURSIVE LexLess(_, _, _)
LexLess(a, b, i) ==
  IF i > Len(a) THEN FALSE
  ELSE IF a[i] # b[i] THEN a[i] < b[i]
  ELSE LexLess(a, b, i + 1)

NumLess(a, b) ==
  IF NumIsNeg(a) # NumIsNeg(b) THEN NumIsNeg(a) ELSE LexLess(a, b, 1)

NumLeq(a, b) == a = b \/ NumLess(a, b)

\* a * 2^k, truncated to the limbs of the model
NumShl(a, k) ==
  LET q == k \div 16
      r == k % 16
      at(j) == IF j \in Limbs THEN a[j] ELSE 0
  IN  Force([i \in Limbs |->
         ((at(i + q) * Pow2Int(r)) % Base) + (at(i + q + 1) \div Pow2Int(16 - r))])

NumOr(a, b) == Force([i \in Limbs |-> BitOr(a[i], b[i])])

Pow2(k) == NumShl(NumOfInt(1), k)

\* ToInt32 and ToUint32 of ECMAScript: the low 32 bits, signed or unsigned
ToUint32(a) == Force([i \in Limbs |-> IF i >= NumLimbs - 1 THEN a[i] ELSE 0])

ToInt32(a) ==
  Force([i \in Limbs |->
           IF i >= NumLimbs - 1 THEN a[i]
           ELSE IF a[NumLimbs - 1] >= Base \div 2 THEN Base - 1 ELSE 0])

\* x << n on JavaScript numbers: 32-bit, shift count taken modulo 32
ShlInt32(x, n) == ToInt32(NumShl(ToInt32(x), n % 32))

\* (x >>> k) & 0xFF on a JavaScript number, k in {0, 8, 16, 24}
ByteOfUint32(x, k) ==
  LET u == ToUint32(x)
      limb == IF k >= 16 THEN u[NumLimbs - 1] ELSE u[NumLimbs]
  IN  BitAnd(limb \div Pow2Int(k % 16), 255)

(***************************************************************************)
(* functions/uint.ts                                                       *)
(***************************************************************************)
RECURSIVE arrayToUint6(_, _, _)
arrayToUint6(array, i, result) ==
  IF i > 8 THEN result
  ELSE arrayToUint6(array, i + 1, NumOr(NumShl(result, 16), NumOfInt(array[i])))

\* mutant: the 32-bit result is left signed
arrayToUint_Signed(version, array) ==
  IF version = 4
  THEN ToInt32(NumOr(NumOr(ShlInt32(NumOfInt(array[1]), 24),
                           ShlInt32(NumOfInt(array[2]), 16)),
                     NumOr(ShlInt32(NumOfInt(array[3]), 8),
                           NumOfInt(array[4]))))
  ELSE arrayToUint6(array, 1, NumZero)

arrayToUint(version, array) ==
  IF version = 4
  THEN ToUint32(NumOr(NumOr(ShlInt32(NumOfInt(array[1]), 24),
                            ShlInt32(NumOfInt(array[2]), 16)),
                      NumOr(ShlInt32(NumOfInt(array[3]), 8),
                            NumOfInt(array[4]))))
  ELSE arrayToUint6(array, 1, NumZero)

toUint(version, number) == NumOfInt(number)

\* bigInt >>= 16n (arithmetic shift of a BigInt by one limb)
NumShr16(a) ==
  Force([i \in Limbs |->
           IF i = 1 THEN (IF NumIsNeg(a) THEN Base - 1 ELSE 0) ELSE a[i - 1]])

RECURSIVE UintToArray6(_, _, _)
UintToArray6(bigInt, i, result) ==
  IF i < 1 THEN result
  ELSE UintToArray6(NumShr16(bigInt), i - 1,
                    [result EXCEPT ![i] = BitAnd(bigInt[NumLimbs], 65535)])

UintToArray(version, value) ==
  IF version = 4
  THEN <<ByteOfUint32(value, 24), ByteOfUint32(value, 16),
         ByteOfUint32(value, 8), ByteOfUint32(value, 0)>>
  ELSE UintToArray6(value, 8, Force([i \in 1..8 |-> 0]))

(***************************************************************************)
(* functions/operation.ts                                                  *)
(***************************************************************************)
and(version, a, b) == Force([i \in 1..Len(a) |-> BitAnd(a[i], b[i])])

or(version, a, b) == Force([i \in 1..Len(a) |-> BitOr(a[i], b[i])])

\* ~a[i] stored into a typed array keeps the low bitsByItem bits
not(version, a) ==
  Force([i \in 1..arrayLength(version) |-> itemMax(version) - a[i]])

(***************************************************************************)
(* const.ts: submask tables                                                *)
(***************************************************************************)
SUBMASK_POSSIBLE_BLOCKS(version) ==
  IF version = 4
  THEN <<0, 128, 192, 224, 240, 248, 252, 254, 255>>
  ELSE <<0, 32768, 49152, 57344, 61440, 63488, 64512, 65024, 65280,
         65408, 65472, 65504, 65520, 65528, 65532, 65534, 65535>>

Min(a, b) == IF a < b THEN a ELSE b

RECURSIVE createSubmaskArrayFrom(_, _, _, _)
createSubmaskArrayFrom(version, i, remainingBits, res) ==
  IF i > arrayLength(version) THEN res
  ELSE LET bitsToSet == Min(remainingBits, bitsByItem(version))
           res2 == [res EXCEPT ![i] = SUBMASK_POSSIBLE_BLOCKS(version)[bitsToSet + 1]]
       IN  IF remainingBits - bitsToSet = 0 THEN res2
           ELSE createSubmaskArrayFrom(version, i + 1, remainingBits - bitsToSet, res2)

createSubmaskArray(version, cidr) ==
  createSubmaskArrayFrom(version, 1, cidr,
                         Force([i \in 1..arrayLength(version) |-> 0]))

CIDR_TO_MASK(version) ==
  [cidr \in 0..totalBits(version) |-> createSubmaskArray(version, cidr)]

(***************************************************************************)
(* functions/check.ts                                                      *)
(***************************************************************************)
SeqContains(seq, x) == \E i \in 1..Len(seq) : seq[i] = x

\* indexOf of a typed array: zero-based index, -1 when absent
IndexOf(seq, x) ==
  IF SeqContains(seq, x)
  THEN (CHOOSE i \in 1..Len(seq) :
          seq[i] = x /\ \A j \in 1..(i - 1) : seq[j] # x) - 1
  ELSE -1

Valid == [valid |-> TRUE, reason |-> Null]

Invalid(type) == [valid |-> FALSE, reason |-> type]

isCorrectAddress(version, items) ==
  IF Len(items) # arrayLength(version) THEN Invalid("incorrect-format")
  ELSE IF \E i \in 1..Len(items) : items[i] < 0 \/ items[i] > itemMax(version)
  THEN Invalid("incorrect-item")
  ELSE Valid

RECURSIVE isCorrectSubmaskFrom(_, _, _, _)
isCorrectSubmaskFrom(version, items, i, hasZero) ==
  IF i > Len(items) THEN Valid
  ELSE IF items[i] < 0 \/ items[i] > itemMax(version) THEN Invalid("incorrect-item")
  ELSE IF ~hasZero
  THEN IF items[i] = itemMax(version)
       THEN isCorrectSubmaskFrom(version, items, i + 1, FALSE)
       ELSE IF SeqContains(SUBMASK_POSSIBLE_BLOCKS(version), items[i])
       THEN isCorrectSubmaskFrom(version, items, i + 1, TRUE)
       ELSE Invalid("has-one-after-zero")
  ELSE IF items[i] # 0 THEN Invalid("has-one-after-zero")
  ELSE isCorrectSubmaskFrom(version, items, i + 1, TRUE)

\* every block a possible block, in whatever order
isCorrectSubmask_AnyOrder(version, items) ==
  IF Len(items) # arrayLength(version) THEN Invalid("incorrect-format")
  ELSE IF \A i \in 1..Len(items) :
            SeqContains(SUBMASK_POSSIBLE_BLOCKS(version), items[i])
  THEN Valid
  ELSE Invalid("has-one-after-zero")

isCorrectSubmask(version, items) ==
  IF Len(items) # arrayLength(version) THEN Invalid("incorrect-format")
  ELSE isCorrectSubmaskFrom(version, items, 1, FALSE)

(***************************************************************************)
(* Strings: sequences of characters, with the JavaScript string functions  *)
(* the library uses                                                        *)
(***************************************************************************)
HexDigits == <<"0", "1", "2", "3", "4", "5", "6", "7", "8", "9",
               "a", "b", "c", "d", "e", "f">>

UpperHexDigits == <<"0", "1", "2", "3", "4", "5", "6", "7", "8", "9",
                    "A", "B", "C", "D", "E", "F">>

\* value of a digit character in the radix, -1 when it is not a digit of it
DigitValue(c, radix) ==
  LET v == IF SeqContains(HexDigits, c) THEN IndexOf(HexDigits, c)
           ELSE IndexOf(UpperHexDigits, c)
  IN  IF v >= 0 /\ v < radix THEN v ELSE -1

\* Number.prototype.toString(radix) of a non-negative integer
RECURSIVE NumberToString(_, _)
NumberToString(n, radix) ==
  IF n < radix THEN <<HexDigits[n + 1]>>
  ELSE Append(NumberToString(n \div radix, radix), HexDigits[(n % radix) + 1])

RECURSIVE JoinFrom(_, _, _)
JoinFrom(parts, sep, i) ==
  IF i > Len(parts) THEN <<>>
  ELSE IF i = Len(parts) THEN parts[i]
  ELSE parts[i] \o sep \o JoinFrom(parts, sep, i + 1)

\* Array.prototype.join
Join(parts, sep) == JoinFrom(parts, sep, 1)

\* String.prototype.split on a one-character separator: the pieces between
\* consecutive separators, the ends of the string counting as separators
Split(str, sep) ==
  LET seps == {i \in 1..Len(str) : str[i] = sep}
      cut(k) ==
        IF k = 0 THEN 0
        ELSE IF k > Cardinality(seps) THEN Len(str) + 1
        ELSE CHOOSE i \in seps : Cardinality({j \in seps : j < i}) = k - 1
  IN  Force([k \in 1..(Cardinality(seps) + 1) |->
               SubSeq(str, cut(k - 1) + 1, cut(k) - 1)])

\* String.prototype.indexOf of a two-character pattern, zero-based, -1 if absent
IndexOfPair(str, c1, c2) ==
  LET hits == {i \in 1..(Len(str) - 1) : str[i] = c1 /\ str[i + 1] = c2}
  IN  IF hits = {} THEN -1
      ELSE (CHOOSE i \in hits : \A j \in hits : i <= j) - 1

\* String.prototype.substring(from, to), zero-based, to exclusive
Substring(str, from, to) == SubSeq(str, from + 1, to)

HasCharIn(str, chars) == \E i \in 1..Len(str) : str[i] \in chars

WhiteSpace == {" "}

RECURSIVE TrimLeft(_)
TrimLeft(str) ==
  IF str # <<>> /\ Head(str) \in WhiteSpace THEN TrimLeft(Tail(str)) ELSE str

RECURSIVE TrimRight(_)
TrimRight(str) ==
  IF str # <<>> /\ str[Len(str)] \in WhiteSpace
  THEN TrimRight(SubSeq(str, 1, Len(str) - 1)) ELSE str

\* an absent number (NaN, undefined) is <<>>, a present one is <<n>>
NaN == <<>>

AllDigits(str, radix) ==
  str # <<>> /\ \A i \in 1..Len(str) : DigitValue(str[i], radix) >= 0

RECURSIVE DigitsValue(_, _, _)
DigitsValue(str, radix, acc) ==
  IF str = <<>> THEN acc
  ELSE DigitsValue(Tail(str), radix, acc * radix + DigitValue(Head(str), radix))

RECURSIVE Pow10(_)
Pow10(k) == IF k = 0 THEN 1 ELSE 10 * Pow10(k - 1)

\* Number(token) for the tokens of the model: white space is trimmed, the
\* empty token is 0, then a decimal literal, a 0x / 0o / 0b literal or a
\* decimal literal with an exponent; anything else is NaN
NumberOf(token) ==
  LET t == TrimRight(TrimLeft(token))
      ePos == {i \in 1..Len(t) : t[i] \in {"e", "E"}}
      prefixed(radix) == AllDigits(SubSeq(t, 3, Len(t)), radix)
  IN  IF t = <<>> THEN <<0>>
      ELSE IF AllDigits(t, 10) THEN <<DigitsValue(t, 10, 0)>>
      ELSE IF Len(t) >= 3 /\ t[1] = "0" /\ t[2] \in {"x", "X"} /\ prefixed(16)
      THEN <<DigitsValue(SubSeq(t, 3, Len(t)), 16, 0)>>
      ELSE IF Len(t) >= 3 /\ t[1] = "0" /\ t[2] \in {"o", "O"} /\ prefixed(8)
      THEN <<DigitsValue(SubSeq(t, 3, Len(t)), 8, 0)>>
      ELSE IF Len(t) >= 3 /\ t[1] = "0" /\ t[2] \in {"b", "B"} /\ prefixed(2)
      THEN <<DigitsValue(SubSeq(t, 3, Len(t)), 2, 0)>>
      ELSE IF Cardinality(ePos) = 1
      THEN LET e == CHOOSE i \in ePos : TRUE
               m == SubSeq(t, 1, e - 1)
               x == SubSeq(t, e + 1, Len(t))
           IN  IF AllDigits(m, 10) /\ AllDigits(x, 10)
               THEN <<DigitsValue(m, 10, 0) * Pow10(DigitsValue(x, 10, 0))>>
               ELSE NaN
      ELSE NaN

RECURSIVE HexPrefixValue(_, _, _)
HexPrefixValue(str, acc, seen) ==
  IF str = <<>> \/ DigitValue(Head(str), 16) < 0
  THEN (IF seen THEN <<acc>> ELSE NaN)
  ELSE HexPrefixValue(Tail(str), acc * 16 + DigitValue(Head(str), 16), TRUE)

\* parseInt(part, 16): leading white space is skipped, then the longest
\* prefix of hex digits is read; NaN when there is none
parseInt16(part) == HexPrefixValue(TrimLeft(part), 0, FALSE)

Ok(value) == [ok |-> TRUE, value |-> value, error |-> Null, type |-> Null]

Throw(error, type) == [ok |-> FALSE, value |-> <<>>, error |-> error, type |-> type]

(***************************************************************************)
(* const.ts: FORBIDDEN_CHARS                                               *)
(***************************************************************************)
LettersGToZ ==
  {"g", "h", "i", "j", "k", "l", "m", "n", "o", "p", "q", "r", "s", "t",
   "u", "v", "w", "x", "y", "z", "G", "H", "I", "J", "K", "L", "M", "N",
   "O", "P", "Q", "R", "S", "T", "U", "V", "W", "X", "Y", "Z"}

FORBIDDEN_CHARS(version) ==
  IF version = 4 THEN {"-", "+", "^", "*", ":", "/"}
  ELSE {"-", "+", "^", "*", ".", "/"} \cup LettersGToZ

(***************************************************************************)
(* functions/conversion.ts: stringify                                      *)
(***************************************************************************)
stringifyIPv4Address(array) ==
  Join(Force([i \in 1..Len(array) |-> NumberToString(array[i], 10)]), <<".">>)

\* a suite is <<start, end>> (zero-based), null is <<>>
SuiteLen(suite) == suite[2] - suite[1]

RECURSIVE searchMaxZeroSuiteFrom(_, _, _, _)
searchMaxZeroSuiteFrom(address, index, res, currentSuite) ==
  IF index >= Len(address)
  THEN IF currentSuite # <<>> /\ (res = <<>> \/ SuiteLen(res) < SuiteLen(currentSuite))
       THEN currentSuite ELSE res
  ELSE LET item == address[index + 1]
       IN  IF currentSuite = <<>>
           THEN searchMaxZeroSuiteFrom(address, index + 1, res,
                                       IF item = 0 THEN <<index, index>> ELSE <<>>)
           ELSE IF item = 0
           THEN searchMaxZeroSuiteFrom(address, index + 1, res,
                                       <<currentSuite[1], index>>)
           ELSE searchMaxZeroSuiteFrom(address, index + 1,
                  IF res = <<>> THEN currentSuite
                  ELSE IF SuiteLen(res) < SuiteLen(currentSuite) THEN currentSuite
                  ELSE res,
                  <<>>)

\* mutant: of several longest suites the last one is taken
searchMaxZeroSuite_Latest(address) ==
  LET n == Len(address)
      found == searchMaxZeroSuiteFrom(Force([i \in 1..n |-> address[n + 1 - i]]),
                                      0, <<>>, <<>>)
  IN  IF found = <<>> THEN <<>> ELSE <<n - 1 - found[2], n - 1 - found[1]>>

searchMaxZeroSuite(address) == searchMaxZeroSuiteFrom(address, 0, <<>>, <<>>)

RECURSIVE stringifyIPv6From(_, _, _, _)
stringifyIPv6From(address, skipIndexes, index, res) ==
  IF index >= Len(address) THEN res
  ELSE IF skipIndexes = <<>> \/ index # skipIndexes[1]
  THEN stringifyIPv6From(address, skipIndexes, index + 1,
                         Append(res, NumberToString(address[index + 1], 16)))
  ELSE LET res1 == Append(res, IF skipIndexes[1] # 0 THEN <<>> ELSE <<":">>)
           res2 == IF skipIndexes[2] = 7 THEN Append(res1, <<>>) ELSE res1
       IN  stringifyIPv6From(address, skipIndexes, skipIndexes[2] + 1, res2)

stringifyIPv6Address(address) ==
  Join(stringifyIPv6From(address, searchMaxZeroSuite(address), 0, <<>>), <<":">>)

(***************************************************************************)
(* functions/parsing.ts                                                    *)
(***************************************************************************)
\* the number of zero blocks, or a thrown too-many-shortcuts
countZeroToAdd(address) ==
  IF address = <<":", ":">> THEN Ok(8)
  ELSE LET index == IndexOfPair(address, ":", ":")
           right == Substring(address, 0, index)
           left == Substring(address, index + 2, Len(address))
       IN  IF index = -1 THEN Ok(0)
           ELSE IF left # <<>> /\ left[1] = ":"
           THEN Throw("IncorrectAddressError", "too-many-shortcuts")
           ELSE IF IndexOfPair(left, ":", ":") # -1
           THEN Throw("IncorrectAddressError", "too-many-shortcuts")
           ELSE Ok(8 - (Len(Split(right, ":")) + Len(Split(left, ":"))))

\* res[index] = value on a Uint16Array(8): a write past the end is dropped
StoreAt(res, index, value) ==
  IF index < Len(res) THEN [res EXCEPT ![index + 1] = value] ELSE res

Max(a, b) == IF a > b THEN a ELSE b

RECURSIVE parseIPv6Parts(_, _, _, _, _)
parseIPv6Parts(parts, i, nbZeroToAdd, index, res) ==
  IF i > Len(parts) THEN Ok(res)
  ELSE IF parts[i] = <<>>
  THEN parseIPv6Parts(parts, i + 1, nbZeroToAdd, index + Max(nbZeroToAdd, 0),
         Force([k \in 1..Len(res) |->
            IF k - 1 >= index /\ k - 1 < index + nbZeroToAdd THEN 0 ELSE res[k]]))
  ELSE LET parsed == parseInt16(parts[i])
       IN  IF parsed = NaN \/ parsed[1] < 0 \/ parsed[1] > 65535
           THEN Throw("IncorrectAddressError", "incorrect-item")
           ELSE parseIPv6Parts(parts, i + 1, nbZeroToAdd, index + 1,
                               StoreAt(res, index, parsed[1]))

\* mutant: the zero count is not adjusted for a leading empty part
parseIPv6Address_NoLeadingAdjust(address) ==
  IF HasCharIn(address, FORBIDDEN_CHARS(6))
  THEN Throw("IncorrectAddressError", "incorrect-format")
  ELSE LET count == countZeroToAdd(address)
           allParts == Split(address, ":")
           shifted == allParts[1] = <<>>
           parts == IF shifted THEN Tail(allParts) ELSE allParts
       IN  IF ~count.ok THEN count
           ELSE parseIPv6Parts(parts, 1, count.value, 0, Force([k \in 1..8 |-> 0]))

parseIPv6Address(address) ==
  IF HasCharIn(address, FORBIDDEN_CHARS(6))
  THEN Throw("IncorrectAddressError", "incorrect-format")
  ELSE LET count == countZeroToAdd(address)
           allParts == Split(address, ":")
           shifted == allParts[1] = <<>>
           parts == IF shifted THEN Tail(allParts) ELSE allParts
       IN  IF ~count.ok THEN count
           ELSE parseIPv6Parts(parts, 1,
                               IF shifted THEN count.value + 1 ELSE count.value,
                               0, Force([k \in 1..8 |-> 0]))

RECURSIVE parseIPv4Items(_, _, _)
parseIPv4Items(splittedAddress, i, res) ==
  LET item(nItem) ==
        IF nItem = NaN \/ nItem[1] < 0 \/ nItem[1] > 255
        THEN Throw("IncorrectAddressError", "incorrect-item")
        ELSE parseIPv4Items(splittedAddress, i + 1, [res EXCEPT ![i] = nItem[1]])
  IN  IF i > Len(splittedAddress) THEN Ok(res)
      ELSE item(NumberOf(splittedAddress[i]))

parseIPv4Address(address) ==
  LET items(splittedAddress) ==
        IF Len(splittedAddress) # 4
        THEN Throw("IncorrectAddressError", "incorrect-format")
        ELSE parseIPv4Items(splittedAddress, 1, Force([k \in 1..4 |-> 0]))
  IN  IF HasCharIn(address, FORBIDDEN_CHARS(4))
      THEN Throw("IncorrectAddressError", "incorrect-format")
      ELSE items(Split(address, "."))

(***************************************************************************)
(* functions/conversion.ts: binary / hex strings and byte arrays           *)
(***************************************************************************)
\* the value of a string of digits of 2^bitsPerDigit, as limbs: the string is
\* read right-aligned, 16 / bitsPerDigit digits to the limb
DigitsToNum(str, bitsPerDigit) ==
  LET perLimb == 16 \div bitsPerDigit
      radix == Pow2Int(bitsPerDigit)
      pad == NumLimbs * perLimb - Len(str)
      digitAt(p) == IF p > pad THEN DigitValue(str[p - pad], radix) ELSE 0
      limb(i) ==
        LET val[k \in 0..perLimb] ==
              IF k = 0 THEN 0 ELSE val[k - 1] * radix + digitAt((i - 1) * perLimb + k)
        IN  val[perLimb]
  IN  Force([i \in Limbs |-> limb(i)])

\* numberConstructor("0b" + s) / numberConstructor("0x" + s): Number gives
\* NaN and BigInt throws unless s, trailing white space dropped, is made of
\* digits of the radix
PrefixedLiteral(str, bitsPerDigit) ==
  LET t == TrimRight(str)
  IN  IF AllDigits(t, Pow2Int(bitsPerDigit))
      THEN Ok(DigitsToNum(t, bitsPerDigit))
      ELSE Throw("IncorrectAddressError", "incorrect-binary-string")

hexStringToUint(version, hexString) ==
  IF Len(hexString) # totalBits(version) \div 4
  THEN Throw("IncorrectAddressError", "incorrect-binary-string")
  ELSE PrefixedLiteral(hexString, 4)

binaryStringToUint(version, binaryString) ==
  IF Len(binaryString) # totalBits(version)
  THEN Throw("IncorrectAddressError", "incorrect-binary-string")
  ELSE PrefixedLiteral(binaryString, 1)

RECURSIVE byteArrayToUint16ArrayFrom(_, _, _, _)
byteArrayToUint16ArrayFrom(bytes, i, index, res) ==
  IF ~(i < Len(bytes) - 1) THEN res
  ELSE byteArrayToUint16ArrayFrom(bytes, i + 2, index + 1,
         StoreAt(res, index, BitOr(bytes[i + 1] * 256, bytes[i + 2])))

byteArrayToUint16Array(bytes) ==
  byteArrayToUint16ArrayFrom(bytes, 0, 0, Force([k \in 1..8 |-> 0]))

(***************************************************************************)
(* submask/functions.ts                                                    *)
(***************************************************************************)
generateSubmaskFromCidr(version, cidr) ==
  IF cidr \in DOMAIN CIDR_TO_MASK(version)
  THEN Ok(CIDR_TO_MASK(version)[cidr])
  ELSE Throw("ContextError", "invalid-cidr")

getSizeFromCidr(version, cidr) ==
  IF version = 4
  THEN ShlInt32(toUint(4, 1), totalBits(4) - cidr)
  ELSE NumShl(toUint(6, 1), totalBits(6) - cidr)

\* the loop "for (cidr = totalBits; cidr >= 0; cidr--)" returns at the first
\* prefix length, scanning downwards, whose size - diff reaches hosts: the
\* greatest such prefix length; with none, the loop ends and Error is thrown
generateSubmaskFromHostsScan(version, hosts, diff) ==
  LET found == {cidr \in 0..totalBits(version) :
                  NumLeq(hosts, NumSub(getSizeFromCidr(version, cidr), diff))}
      cidr == CHOOSE c \in found : \A d \in found : d <= c
  IN  IF found = {} THEN Throw("Error", "untyped")
      ELSE Ok([submask |-> generateSubmaskFromCidr(version, cidr).value,
               hosts |-> NumSub(getSizeFromCidr(version, cidr), diff),
               size |-> getSizeFromCidr(version, cidr), cidr |-> cidr])

generateSubmaskFromHosts(version, hosts) ==
  LET maxHosts == NumShl(NumOfInt(1), totalBits(version))
      diff == IF version = 4 THEN NumOfInt(2) ELSE NumOfInt(1)
  IN  IF NumLess(hosts, NumZero) \/ NumLess(maxHosts, hosts)
      THEN Throw("ContextError", "invalid-hosts-number")
      ELSE generateSubmaskFromHostsScan(version, hosts, diff)

getHostsFromSizeAndCidr(version, size, cidr) ==
  IF version = 4
  THEN IF cidr = 32 THEN NumOfInt(1)
       ELSE IF cidr = 31 THEN NumOfInt(2)
       ELSE IF NumLess(NumSub(size, NumOfInt(2)), NumZero) THEN NumZero
       ELSE NumSub(size, NumOfInt(2))
  ELSE IF cidr = 128 THEN NumOfInt(1)
       ELSE IF cidr = 127 THEN NumZero
       ELSE IF NumLess(NumZero, size) THEN NumSub(size, NumOfInt(1))
       ELSE NumZero

(***************************************************************************)
(* functions/common.ts, address.ts, submask/*.ts: submask objects          *)
(* An undefined field is <<>>, a defined one is <<value>>.                 *)
(***************************************************************************)
Undefined == <<>>

Known(value) == <<value>>

NoKnownProperties ==
  [_cidr |-> Undefined, _size |-> Undefined, _hosts |-> Undefined, _uint |-> Undefined]

\* new arrayConstructor(items): every item is reduced modulo 2^bitsByItem
TypedArray(version, items) ==
  Force([i \in 1..Len(items) |-> items[i] % (itemMax(version) + 1)])

\* the call of a function of type CheckAddressFunction, named by check
CheckAddressFunction(check, version, address) ==
  IF check = "isCorrectSubmask" THEN isCorrectSubmask(version, address)
  ELSE isCorrectAddress(version, address)

createAddressArray(version, address, check) ==
  IF ~CheckAddressFunction(check, version, address).valid
  THEN Throw("IncorrectAddressError",
             CheckAddressFunction(check, version, address).reason)
  ELSE Ok(address)

\* Address constructor
AddressArray(version, items, check, checkValue) ==
  IF checkValue THEN createAddressArray(version, items, check)
  ELSE Ok(TypedArray(version, items))

\* Submask constructor: the object, or the error thrown
NewSubmask(version, items, checkValue, knownProperties) ==
  LET array == AddressArray(version, items, "isCorrectSubmask", checkValue)
  IN  IF ~array.ok THEN array
      ELSE Ok([version |-> version, array |-> array.value,
               _cidr |-> knownProperties._cidr, _size |-> knownProperties._size,
               _hosts |-> knownProperties._hosts, _uint |-> knownProperties._uint])

Submask_fromCidr(version, cidr) ==
  LET array == generateSubmaskFromCidr(version, cidr)
  IN  IF ~array.ok THEN array
      ELSE NewSubmask(version, array.value, FALSE,
                      [NoKnownProperties EXCEPT !._cidr = Known(cidr)])

Submask_fromHosts(version, hosts) ==
  LET r == generateSubmaskFromHosts(version, hosts)
  IN  IF ~r.ok THEN r
      ELSE NewSubmask(version, r.value.submask, FALSE,
                      [NoKnownProperties EXCEPT !._size = Known(r.value.size),
                                                !._hosts = Known(r.value.hosts),
                                                !._cidr = Known(r.value.cidr)])

Submask_fromString(version, string) ==
  LET parsed == IF version = 4 THEN parseIPv4Address(string)
                ELSE parseIPv6Address(string)
  IN  IF ~parsed.ok THEN parsed
      ELSE NewSubmask(version, parsed.value, TRUE, NoKnownProperties)

Submask_fromByteArray(version, bytes) ==
  IF version = 4 THEN NewSubmask(4, bytes, TRUE, NoKnownProperties)
  ELSE NewSubmask(6, byteArrayToUint16Array(bytes), TRUE, NoKnownProperties)

Submask_fromUint(version, uint) ==
  NewSubmask(version, UintToArray(version, uint), version = 6,
             [NoKnownProperties EXCEPT !._uint = Known(uint)])

Submask_fromBinaryString(version, binaryString) ==
  LET uint == binaryStringToUint(version, binaryString)
  IN  IF ~uint.ok THEN uint ELSE Submask_fromUint(version, uint.value)

Submask_fromHexString(version, hexString) ==
  LET uint == hexStringToUint(version, hexString)
  IN  IF ~uint.ok THEN uint ELSE Submask_fromUint(version, uint.value)

\* getter cidr: the value it memoizes
RECURSIVE Submask_cidrFrom(_, _, _, _)
Submask_cidrFrom(version, array, i, value) ==
  IF i > Len(array) THEN value
  ELSE LET bitsToAdd == IndexOf(SUBMASK_POSSIBLE_BLOCKS(version), array[i])
       IN  IF bitsToAdd = 0 THEN value
           ELSE Submask_cidrFrom(version, array, i + 1, value + bitsToAdd)

\* mutant: only the words with every bit set are counted
Submask_cidr_FullWords(this) ==
  IF this._cidr # Undefined THEN this
  ELSE [this EXCEPT !._cidr =
          Known(bitsByItem(this.version)
                  * Cardinality({i \in 1..Len(this.array) :
                                   this.array[i] = itemMax(this.version)}))]

\* the object after a call of the getter cidr
Submask_cidr(this) ==
  IF this._cidr # Undefined THEN this
  ELSE [this EXCEPT !._cidr = Known(Submask_cidrFrom(this.version, this.array, 1, 0))]

\* the object after a call of the getter size
Submask_size(this) ==
  IF this._size # Undefined THEN this
  ELSE LET t == Submask_cidr(this)
       IN  [t EXCEPT !._size = Known(getSizeFromCidr(t.version, t._cidr[1]))]

\* the object after a call of the getter hosts
Submask_hosts(this) ==
  IF this._hosts # Undefined THEN this
  ELSE LET t == Submask_cidr(Submask_size(this))
       IN  [t EXCEPT !._hosts =
              Known(getHostsFromSizeAndCidr(t.version, t._size[1], t._cidr[1]))]

(***************************************************************************)
(* address.ts, ipaddress/*.ts: address objects                             *)
(***************************************************************************)
\* Address constructor through IPv4Address / IPv6Address: the object, or the
\* error thrown
NewAddress(version, items, checkValue, knownUint) ==
  LET array == AddressArray(version, items, "isCorrectAddress", checkValue)
  IN  IF ~array.ok THEN array
      ELSE Ok([version |-> version, array |-> array.value, _uint |-> knownUint])

createAddress(version, value) == NewAddress(version, value, TRUE, Undefined)

\* IPv4Address.fromUint builds without check, IPv6Address.fromUint with it
Address_fromUint(version, uint) ==
  NewAddress(version, UintToArray(version, uint), version = 6, Known(uint))

createAddressFromUint(version, value) == Address_fromUint(version, value)

\* the object after a call of toUint
Address_toUint(this) ==
  IF this._uint # Undefined THEN this
  ELSE [this EXCEPT !._uint = Known(arrayToUint(this.version, this.array))]

\* IPv4Address / IPv6Address.fromBinaryString and fromHexString
Address_fromBinaryString(version, binaryString) ==
  LET uint == binaryStringToUint(version, binaryString)
  IN  IF ~uint.ok THEN uint ELSE Address_fromUint(version, uint.value)

Address_fromHexString(version, hexString) ==
  LET uint == hexStringToUint(version, hexString)
  IN  IF ~uint.ok THEN uint ELSE Address_fromUint(version, uint.value)

(***************************************************************************)
(* context.ts                                                              *)
(***************************************************************************)
calculateLastAddress(version, address, submask) ==
  createAddress(version, or(version, address.array, not(version, submask.array)))

\* Context constructor: the object, or the error thrown
NewContext(address, submask) ==
  IF address.version # submask.version
  THEN Throw("ContextError", "different-ip-versions")
  ELSE Ok([version |-> address.version, address |-> address, submask |-> submask,
           _network |-> Undefined, _firstHost |-> Undefined,
           _lastHost |-> Undefined, _broadcast |-> Undefined])

\* the context after a call of the getter network
Context_network(this) ==
  IF this._network # Undefined THEN this
  ELSE [this EXCEPT !._network =
          Known(createAddress(this.version,
                  and(this.version, this.address.array, this.submask.array)).value)]

\* the context after a call of the getter firstHost
Context_firstHost(this) ==
  IF this._firstHost # Undefined THEN this
  ELSE LET t == Context_network(this)
           network == Address_toUint(t._network[1])
       IN  [t EXCEPT !._network = Known(network),
                     !._firstHost =
                        Known(createAddressFromUint(this.version,
                                NumAdd(network._uint[1], toUint(this.version, 1))).value)]

\* the context after a call of the getter broadcast of IPv4Context
Context_broadcast(this) ==
  IF this._broadcast # Undefined THEN this
  ELSE [this EXCEPT !._broadcast =
          Known(calculateLastAddress(4, this.address, this.submask).value)]

\* the context after a call of the getter lastHost
Context_lastHost(this) ==
  IF this._lastHost # Undefined THEN this
  ELSE IF this.version = 4
  THEN LET t == Context_broadcast(this)
           broadcast == Address_toUint(t._broadcast[1])
       IN  [t EXCEPT !._broadcast = Known(broadcast),
                     !._lastHost =
                        Known(Address_fromUint(4,
                                NumSub(broadcast._uint[1], NumOfInt(1))).value)]
  ELSE [this EXCEPT !._lastHost =
          Known(calculateLastAddress(6, this.address, this.submask).value)]

\* the getter hosts of a context: the hosts of its submask
Context_hosts(this) == Submask_hosts(this.submask)._hosts[1]

\* isHost: the context after the call and the value returned
Context_isHost(this, address) ==
  LET t == Context_lastHost(Context_firstHost(this))
      firstHost == t._firstHost[1]
      lastHost == t._lastHost[1]
  IN  [this |-> t,
       value |-> ~\E i \in 1..Len(address.array) :
                    \/ address.array[i] > lastHost.array[i]
                    \/ address.array[i] < firstHost.array[i]]

\* mutant: the candidate is compared without the submask applied
Context_includes_NoMask(this, address) ==
  LET addressAndSubmask == arrayToUint(this.version, address.array)
      t == Context_network(this)
      network == Address_toUint(t._network[1])
  IN  [this |-> [t EXCEPT !._network = Known(network)],
       value |-> addressAndSubmask = network._uint[1]]

\* includes: the context after the call and the value returned
Context_includes(this, address) ==
  LET addressAndSubmask ==
        arrayToUint(this.version, and(this.version, address.array, this.submask.array))
      t == Context_network(this)
      network == Address_toUint(t._network[1])
  IN  [this |-> [t EXCEPT !._network = Known(network)],
       value |-> addressAndSubmask = network._uint[1]]

(***************************************************************************)
(* tunneling/*.ts: IPv4 addresses carried in IPv6 addresses                *)
(***************************************************************************)
RECURSIVE BitXor(_, _)
BitXor(x, y) ==
  IF x = 0 THEN y
  ELSE IF y = 0 THEN x
  ELSE ((x + y) % 2) + 2 * BitXor(x \div 2, y \div 2)

\* ipv6[index] = value on a Uint16Array: the value is reduced modulo 2^16
Uint16Set(ipv6, index, value) == [ipv6 EXCEPT ![index + 1] = value % Base]

\* new Uint16Array(8) with the prefix set from index 0
fillPrefix(prefix) ==
  Force([i \in 1..arrayLength(6) |-> IF i <= Len(prefix) THEN prefix[i] % Base ELSE 0])

copyIPv4ToIPv6AddressOperation(a, b) == BitOr(a * 256, b)

\* the operation callback of copyIPv4ToIPv6Address, named by operation:
\* the default one, or Teredo's (a, b) => operation(a, b) ^ 0xFFFF
CopyIPv4ToIPv6AddressOperationCallback(operation, a, b) ==
  IF operation = "teredo" THEN BitXor(copyIPv4ToIPv6AddressOperation(a, b), itemMax(6))
  ELSE copyIPv4ToIPv6AddressOperation(a, b)

\* the operation callback of copyIPv6ToIPv4Address, named by operation:
\* the default word => word, or Teredo's word => word ^ 0xFFFF
CopyIPv6ToIPv4AddressOperation(operation, word) ==
  IF operation = "teredo" THEN BitXor(word, itemMax(6)) ELSE word

\* the Uint16Array (getUint16Array) or the IPv6Address built on it
copyIPv4ToIPv6Address(ipv4, ipv6, index, operation, getUint16Array) ==
  LET first == Uint16Set(ipv6, index,
                 CopyIPv4ToIPv6AddressOperationCallback(operation, ipv4[1], ipv4[2]))
      both == Uint16Set(first, index + 1,
                CopyIPv4ToIPv6AddressOperationCallback(operation, ipv4[3], ipv4[4]))
  IN  IF getUint16Array THEN Ok(both) ELSE NewAddress(6, both, TRUE, Undefined)

copyIPv6ToIPv4Address(ipv6, index, operation) ==
  LET one == CopyIPv6ToIPv4AddressOperation(operation, ipv6[index + 1])
      two == CopyIPv6ToIPv4AddressOperation(operation, ipv6[index + 2])
  IN  NewAddress(4, <<one \div 256, one % 256, two \div 256, two % 256>>,
                 TRUE, Undefined)

InvalidTunneling == Throw("IncorrectAddressError", "invalid-ipv6-tunneling")

\* mutant: the sixth word is not looked at
Mapped_isValid_FiveWords(ipv6) ==
  \A i \in 1..5 : ipv6.array[i] = 0

Mapped_isValid(ipv6) ==
  /\ \A i \in 1..5 : ipv6.array[i] = 0
  /\ ipv6.array[6] = 65535

Mapped_toIPv4(ipv6) ==
  IF ~Mapped_isValid(ipv6) THEN InvalidTunneling
  ELSE copyIPv6ToIPv4Address(ipv6.array, 6, "default")

Mapped_toIPv6(ipv4) ==
  NewAddress(6, copyIPv4ToIPv6Address(ipv4.array,
                  fillPrefix(<<0, 0, 0, 0, 0, 65535>>), 6, "default", TRUE).value,
             TRUE, Undefined)

SixToFour_isValid(ipv6) == ipv6.array[1] = 8194

SixToFour_toIPv6(ipv4) ==
  copyIPv4ToIPv6Address(ipv4.array, fillPrefix(<<8194>>), 1, "default", FALSE)

SixToFour_toIPv4(ipv6) ==
  IF ~SixToFour_isValid(ipv6) THEN InvalidTunneling
  ELSE copyIPv6ToIPv4Address(ipv6.array, 1, "default")

Teredo_isValid(ipv6) == ipv6.array[1] = 8193 /\ ipv6.array[2] = 0

\* mutant: the client address is read without the inversion
Teredo_toIPv4_NoInversion(ipv6) ==
  IF ~Teredo_isValid(ipv6) THEN InvalidTunneling
  ELSE copyIPv6ToIPv4Address(ipv6.array, 6, "default")

Teredo_toIPv4(ipv6) ==
  IF ~Teredo_isValid(ipv6) THEN InvalidTunneling
  ELSE copyIPv6ToIPv4Address(ipv6.array, 6, "teredo")

\* params is a TeredoDatas: the server address, the flags and the port
Teredo_toIPv6(ipv4, params) ==
  IF params.flags < 0 \/ params.flags > 65536
  THEN Throw("IncorrectAddressError", "teredo-incorrect-flags")
  ELSE IF params.port < 0 \/ params.port > 65536
  THEN Throw("IncorrectAddressError", "teredo-incorrect-port")
  ELSE LET prefix == fillPrefix(<<8193, 0>>)
           server == copyIPv4ToIPv6Address(params.ipv4, prefix, 2, "default", TRUE).value
           flags == Uint16Set(server, 4, params.flags)
           port == Uint16Set(flags, 5, BitXor(params.port, 65535))
       IN  copyIPv4ToIPv6Address(ipv4.array, port, 6, "teredo", FALSE)

\* the static methods of a tunneling mode, the mode named by mode
isValid(mode, ipv6) ==
  IF mode = "Mapped" THEN Mapped_isValid(ipv6)
  ELSE IF mode = "SixToFour" THEN SixToFour_isValid(ipv6)
  ELSE Teredo_isValid(ipv6)

\* IPv6Address.toIPv4Address(tunnelingMode)
toIPv4Address(this, mode) ==
  IF mode = "Mapped" THEN Mapped_toIPv4(this)
  ELSE IF mode = "SixToFour" THEN SixToFour_toIPv4(this)
  ELSE Teredo_toIPv4(this)

\* IPv4Address.toIPv6Address(tunnelingMode, params)
toIPv6Address(this, mode, params) ==
  IF mode = "Teredo" THEN Teredo_toIPv6(this, params)
  ELSE IF mode = "Mapped" THEN Mapped_toIPv6(this)
  ELSE SixToFour_toIPv6(this)

(***************************************************************************)
(* ipaddress/*.ts, functions/parsing.ts, context.ts: addresses and         *)
(* contexts made from text                                                 *)
(* A null or undefined object is <<>>, a present one is <<object>>.        *)
(***************************************************************************)
StartsWith(str, prefix) ==
  Len(str) >= Len(prefix) /\ SubSeq(str, 1, Len(prefix)) = prefix

EndsWith(str, suffix) ==
  Len(str) >= Len(suffix)
    /\ SubSeq(str, Len(str) - Len(suffix) + 1, Len(str)) = suffix

DotIp6Arpa == <<".", "i", "p", "6", ".", "a", "r", "p", "a">>

MappedPrefix == <<":", ":", "f", "f", "f", "f", ":">>

LowerCaseLetters ==
  <<"a", "b", "c", "d", "e", "f", "g", "h", "i", "j", "k", "l", "m",
    "n", "o", "p", "q", "r", "s", "t", "u", "v", "w", "x", "y", "z">>

UpperCaseLetters ==
  <<"A", "B", "C", "D", "E", "F", "G", "H", "I", "J", "K", "L", "M",
    "N", "O", "P", "Q", "R", "S", "T", "U", "V", "W", "X", "Y", "Z">>

AlphaNumeric ==
  {"0", "1", "2", "3", "4", "5", "6", "7", "8", "9"}
    \cup {LowerCaseLetters[i] : i \in 1..26} \cup {UpperCaseLetters[i] : i \in 1..26}

\* zoneId is a string here: /^[a-zA-Z0-9]+$/
verifyZoneId(zoneId) ==
  zoneId # <<>> /\ \A i \in 1..Len(zoneId) : zoneId[i] \in AlphaNumeric

\* the address part, and the zone part when there is a "%"
hasZoneId(address) ==
  LET idx == IndexOf(address, "%")
  IN  IF idx = -1 THEN [address |-> address, zoneId |-> Undefined]
      ELSE [address |-> Substring(address, 0, idx),
            zoneId |-> Known(Substring(address, idx + 1, Len(address)))]

IPv4Address_fromString(string) ==
  LET made(parsed) ==
        IF ~parsed.ok THEN parsed ELSE NewAddress(4, parsed.value, FALSE, Undefined)
  IN  made(parseIPv4Address(string))

\* IPv6Address constructor with a zone id: the array first, then the zone id
NewIPv6Address(items, zoneId) ==
  LET made == NewAddress(6, items, TRUE, Undefined)
  IN  IF ~made.ok THEN made
      ELSE IF zoneId # Undefined /\ ~verifyZoneId(zoneId[1])
      THEN Throw("IncorrectAddressError", "incorrect-zone-id")
      ELSE made

IPv6Address_fromString(string) ==
  LET split == hasZoneId(string)
      parsed == parseIPv6Address(split.address)
  IN  IF ~parsed.ok THEN parsed ELSE NewIPv6Address(parsed.value, split.zoneId)

Mapped_isValidString(string) == StartsWith(string, MappedPrefix)

\* Mapped.fromString: the zone id is handed over unverified
Mapped_fromString(string) ==
  LET mapped(ipv4) == IF ~ipv4.ok THEN ipv4 ELSE Mapped_toIPv6(ipv4.value)
  IN  IF ~Mapped_isValidString(string)
      THEN Throw("IncorrectAddressError", "incorrect-format")
      ELSE mapped(IPv4Address_fromString(Substring(string, 7, Len(string))))

IPv6Address_fromIPv4MappedString(string) ==
  Mapped_fromString(hasZoneId(string).address)

\* String.prototype.toLowerCase
ToLowerCase(str) ==
  Force([i \in 1..Len(str) |->
           IF SeqContains(UpperCaseLetters, str[i])
           THEN LowerCaseLetters[IndexOf(UpperCaseLetters, str[i]) + 1]
           ELSE str[i]])

\* String.prototype.toUpperCase
ToUpperCase(str) ==
  Force([i \in 1..Len(str) |->
           IF SeqContains(LowerCaseLetters, str[i])
           THEN UpperCaseLetters[IndexOf(LowerCaseLetters, str[i]) + 1]
           ELSE str[i]])

\* String.prototype.replace with a string pattern: the first occurrence goes
ReplaceFirst(str, pattern) ==
  LET hits == {i \in 1..(Len(str) - Len(pattern) + 1) :
                 SubSeq(str, i, i + Len(pattern) - 1) = pattern}
      cutAt(i) == SubSeq(str, 1, i - 1) \o SubSeq(str, i + Len(pattern), Len(str))
  IN  IF hits = {} THEN str
      ELSE cutAt(CHOOSE i \in hits : \A j \in hits : i <= j)

\* the 32 nibbles of an ip6.arpa name, or null
splitIP6ArpaString(string) ==
  LET checked(parts) == IF Len(parts) # 32 THEN Undefined ELSE Known(parts)
  IN  checked(Split(string, "."))

getIP6ArpaStringParts(string) ==
  IF EndsWith(string, DotIp6Arpa) /\ Len(string) = 72
  THEN splitIP6ArpaString(ReplaceFirst(string, DotIp6Arpa))
  ELSE Undefined

\* Number("0x" + part): the value of a hex literal, else NaN
HexNumberOf(part) == NumberOf(<<"0", "x">> \o part)

IPv6Address_fromIP6ArpaString(string) ==
  LET nibbles(parts) ==
        Force([i \in 1..32 |-> HexNumberOf(parts[i])])
      \* parts.reverse(), four nibbles by word
      words(n) ==
        IF \E i \in 1..32 : n[i] = NaN
        THEN Throw("IncorrectAddressError", "incorrect-format")
        ELSE NewAddress(6,
               Force([w \in 1..arrayLength(6) |->
                  BitOr(BitOr(BitOr(n[32 - 4 * (w - 1)][1] * 16,
                                    n[31 - 4 * (w - 1)][1]) * 16,
                              n[30 - 4 * (w - 1)][1]) * 16,
                        n[29 - 4 * (w - 1)][1]) % Base]),
               FALSE, Undefined)
      fromParts(parts) ==
        IF parts = Undefined THEN Throw("IncorrectAddressError", "incorrect-format")
        ELSE words(nibbles(parts[1]))
  IN  fromParts(getIP6ArpaStringParts(ToLowerCase(string)))

\* check.ts
getIPv6AddressStringType(address) ==
  IF EndsWith(address, DotIp6Arpa) THEN "ip6.arpa"
  ELSE IF StartsWith(address, MappedPrefix) THEN "mapped"
  ELSE IF SeqContains(address, ":") THEN "normal"
  ELSE Null

createIPAddressFromString(address) ==
  LET ofType(type) ==
        IF type = "ip6.arpa" THEN IPv6Address_fromIP6ArpaString(address)
        ELSE IF type = "mapped" THEN IPv6Address_fromIPv4MappedString(address)
        ELSE IF type = "normal" THEN IPv6Address_fromString(address)
        ELSE IPv4Address_fromString(address)
  IN  ofType(getIPv6AddressStringType(address))

\* ipaddress/functions.ts: ip
ip(address) == createIPAddressFromString(address)

\* common.ts
isIPv4StringAddress(address) == SeqContains(address, ".")

\* IPv4Address.isValidAddress on a string: address.split(".").map(Number),
\* then isCorrectAddress; NaN is no integer
IPv4Address_isValidAddress(address) ==
  LET correct(items) ==
        IF \E i \in 1..Len(items) : items[i] = NaN
        THEN FALSE
        ELSE isCorrectAddress(4, Force([i \in 1..Len(items) |-> items[i][1]])).valid
      numbers(tokens) == Force([i \in 1..Len(tokens) |-> NumberOf(tokens[i])])
  IN  correct(numbers(Split(address, ".")))

\* IPv6Address.isValidAddress on a string: parseIPv6Address in a try block,
\* then isCorrectAddress
IPv6Address_isValidAddress(address) ==
  LET correct(parsed) ==
        IF ~parsed.ok THEN FALSE ELSE isCorrectAddress(6, parsed.value).valid
  IN  correct(parseIPv6Address(address))

\* ipaddress/functions.ts: isValidAddress; the try block turns a throw into
\* false
isValidAddress(address) ==
  IF Mapped_isValidString(address) THEN TRUE
  ELSE IF isIPv4StringAddress(address) THEN IPv4Address_isValidAddress(address)
  ELSE IPv6Address_isValidAddress(address)

hasCidrInString(string) == SeqContains(string, "/")

extractCidrFromString(stringWithCidr) ==
  LET extracted(address, cidr) ==
        IF cidr = NaN THEN Throw("ContextError", "invalid-cidr")
        ELSE Ok([address |-> address, cidr |-> cidr[1]])
      splitted(splittedString) ==
        IF Len(splittedString) # 2
        THEN Throw("ContextError", "invalid-string-with-cidr")
        ELSE extracted(splittedString[1], NumberOf(splittedString[2]))
  IN  splitted(Split(stringWithCidr, "/"))

\* mutant: the classes are cut at 127, 191 and 223 inclusive
IPv4Address_class_Inclusive(this) ==
  IF this.array[1] <= 128 THEN "A"
  ELSE IF this.array[1] <= 192 THEN "B"
  ELSE IF this.array[1] <= 224 THEN "C"
  ELSE IF this.array[1] <= 240 THEN "D"
  ELSE "E"

\* getter class of IPv4Address
IPv4Address_class(this) ==
  IF this.array[1] < 128 THEN "A"
  ELSE IF this.array[1] < 192 THEN "B"
  ELSE IF this.array[1] < 224 THEN "C"
  ELSE IF this.array[1] < 240 THEN "D"
  ELSE "E"

IPv4_CLASS_TO_SUBMASK(addressClass) ==
  IF addressClass = "A" THEN CIDR_TO_MASK(4)[8]
  ELSE IF addressClass = "B" THEN CIDR_TO_MASK(4)[16]
  ELSE CIDR_TO_MASK(4)[24]

\* the submask of a class, or null
IPv4Submask_fromClass(addressClass) ==
  IF addressClass \in {"A", "B", "C"}
  THEN Known(NewSubmask(4, IPv4_CLASS_TO_SUBMASK(addressClass), FALSE,
                        NoKnownProperties).value)
  ELSE Undefined

\* context(firstParam, secondParam): secondParam is <<>> when it is left out;
\* the empty string is falsy as well
context(firstParam, secondParam) ==
  LET withCidr == secondParam = <<>> /\ hasCidrInString(firstParam)
      \* new IPv4Context(address, submask) / new IPv6Context(address, submask)
      construct(address, submask) ==
        IF ~submask.ok THEN submask ELSE NewContext(address, submask.value)
      \* the branch on the kind of the address, cidr and sSubmask being set
      withAddress(rExtractCidr, address, classSubmask) ==
        IF address.version = 4 /\ ~withCidr /\ secondParam = <<>>
             /\ classSubmask = Undefined
        THEN Throw("ContextError", "ipv4-class-does-not-submask")
        ELSE construct(address,
               IF withCidr
               THEN Submask_fromCidr(address.version, rExtractCidr.value.cidr)
               ELSE IF secondParam # <<>> \/ address.version = 6
               THEN Submask_fromString(address.version,
                      IF secondParam # <<>> THEN secondParam
                      ELSE <<"n", "u", "l", "l">>)
               ELSE Ok(classSubmask[1]))
      \* const address = createIPAddressFromString(sAddress)
      withCreated(rExtractCidr, address) ==
        IF ~address.ok THEN address
        ELSE withAddress(rExtractCidr, address.value,
                         IPv4Submask_fromClass(IPv4Address_class(address.value)))
      \* sAddress and cidr, from rExtractCidr when the text has a "/"
      withExtracted(rExtractCidr) ==
        IF withCidr /\ ~rExtractCidr.ok THEN rExtractCidr
        ELSE withCreated(rExtractCidr,
               createIPAddressFromString(
                 IF withCidr THEN rExtractCidr.value.address ELSE firstParam))
  IN  withExtracted(extractCidrFromString(firstParam))

(***************************************************************************)
(* Input domains                                                           *)
(***************************************************************************)
\* how many sample values a word of an input array ranges over
NumSampleWords == 3

\* sample octets: the extremes first, then values with several digits
OctetPool == <<0, 255, 10, 1, 128, 254>>

\* sample non-zero 16-bit words: one to four hex digits
WordPool == <<1, 3512, 65535, 16, 43981, 256>>

SampleOctets == {OctetPool[i] : i \in 1..NumSampleWords}

\* IPv6 arrays: every placement of zero words, the other words taken from
\* the pool in rotation
SampleArrays6 ==
  {Force([i \in 1..8 |-> IF i \in Z THEN 0 ELSE WordPool[((i + s) % NumSampleWords) + 1]]) :
     Z \in SUBSET (1..8), s \in 0..(NumSampleWords - 1)}

SampleArrays4 == [1..4 -> SampleOctets]

SampleArrays(version) == IF version = 4 THEN SampleArrays4 ELSE SampleArrays6

\* host counts around every power of two, from -1 up to 2^totalBits + 1
HostsNear == {-2, -1, 0, 1}

SampleHosts(version) ==
  {NumAdd(Pow2(k), NumOfInt(d)) : k \in 0..totalBits(version), d \in HostsNear}

\* prefix lengths handed to fromCidr: every valid one and the two next to them
SampleCidrs(version) == (-1)..(totalBits(version) + 1)

\* the prefix masks of a version
PrefixMasks(version) == {CIDR_TO_MASK(version)[n] : n \in 0..totalBits(version)}

Reversed(array) == Force([i \in 1..Len(array) |-> array[Len(array) + 1 - i]])

\* word arrays handed to the submask factories: every prefix mask, its
\* complement and its mirror image, and for IPv4 the sample arrays
MaskArrays(version) ==
  PrefixMasks(version)
    \cup {not(version, m) : m \in PrefixMasks(version)}
    \cup {Reversed(m) : m \in PrefixMasks(version)}
    \cup (IF version = 4 THEN SampleArrays4 ELSE {})

\* arrays that are no address at all: wrong length, item out of range
MalformedArrays(version) ==
  {<<itemMax(version), itemMax(version), 0>>,
   Force([i \in 1..arrayLength(version) |-> IF i = 1 THEN itemMax(version) + 1 ELSE 0])}

\* how many sample values a word of a context address ranges over
NumCtxWords == 2

\* sample words of context addresses and candidates: the two extremes first
CtxWordPool(version) ==
  IF version = 4 THEN <<0, 255, 10, 1>> ELSE <<0, 65535, 3512, 1>>

CtxWords(version) == {CtxWordPool(version)[i] : i \in 1..NumCtxWords}

\* addresses a.b.b.c (IPv4) and a:b:b:b:b:b:b:c (IPv6)
CtxArrays(version) ==
  {Force([i \in 1..arrayLength(version) |->
            IF i = 1 THEN a ELSE IF i = arrayLength(version) THEN c ELSE b]) :
     a \in CtxWords(version), b \in CtxWords(version), c \in CtxWords(version)}

\* prefix lengths of contexts: both ends, the word boundaries next to them,
\* one inside a word, and the point-to-point and single-address prefixes
CtxCidrs(version) ==
  {0, bitsByItem(version), bitsByItem(version) + bitsByItem(version) \div 2,
   totalBits(version) - bitsByItem(version), totalBits(version) - 2,
   totalBits(version) - 1, totalBits(version)}

\* the digits of a non-negative number, most significant first, bitsPerDigit
\* bits each, without leading zeros: toString(2) and toString(16)
StripLeadingZeros(str) ==
  LET significant == {i \in 1..Len(str) : str[i] # "0"}
      first == CHOOSE i \in significant : \A j \in significant : i <= j
  IN  IF significant = {} THEN <<"0">> ELSE SubSeq(str, first, Len(str))

NumToString(num, bitsPerDigit) ==
  LET perLimb == 16 \div bitsPerDigit
      digit(i) ==
        LET limb == num[((i - 1) \div perLimb) + 1]
            pos == perLimb - 1 - ((i - 1) % perLimb)
        IN  (limb \div Pow2Int(pos * bitsPerDigit)) % Pow2Int(bitsPerDigit)
  IN  StripLeadingZeros(Force([i \in 1..(NumLimbs * perLimb) |-> HexDigits[digit(i) + 1]]))

\* String.prototype.padStart(length, "0")
PadStart(str, length) ==
  IF Len(str) >= length THEN str
  ELSE Force([i \in 1..(length - Len(str)) |-> "0"]) \o str

\* Address.toBinaryString, Address.toHexString on the unsigned integer
toBinaryString(version, uint) == PadStart(NumToString(uint, 1), totalBits(version))

toHexString(version, uint) == PadStart(NumToString(uint, 4), totalBits(version) \div 4)

\* byte arrays: the bytes of a word array
BytesOf(version, array) ==
  IF version = 4 THEN array
  ELSE Force([i \in 1..16 |-> IF i % 2 = 1 THEN array[(i + 1) \div 2] \div 256
                              ELSE array[i \div 2] % 256])

(***************************************************************************)
(* ipaddress/ipv6.ts, ipaddress/ipv4.ts, address.ts: accessors             *)
(***************************************************************************)
\* conversion.ts: the bytes of a Uint16Array, high byte first
uint16ArrayToByteArray(array) ==
  Force([i \in 1..(2 * Len(array)) |->
           IF i % 2 = 1 THEN array[(i + 1) \div 2] \div 256
           ELSE BitAnd(array[i \div 2], 255)])

\* the nibbles in the order of the hex string: most significant first
IPv6Address_toIP6ArpaString_MostSignificantFirst(hexString) ==
  Join(Force([index \in 1..32 |-> <<hexString[index]>>]), <<".">>) \o DotIp6Arpa

\* the assignment of toIP6ArpaString: the 32 characters of the hex string,
\* last first, joined by dots, and the suffix
IPv6Address_toIP6ArpaString(hexString) ==
  Join(Force([index \in 1..32 |-> <<hexString[33 - index]>>]), <<".">>)
    \o DotIp6Arpa

\* IPv6Address predicates on the first word and on the unsigned integer
IPv6Address_isLoopback(this) == arrayToUint(6, this.array) = NumOfInt(1)

IPv6Address_isLocalLink(this) == BitAnd(this.array[1], 65472) = 65152

IPv6Address_isMulticast(this) == this.array[1] \div 256 = 255

IPv6Address_isUniqueLocal(this) == this.array[1] \div 256 = 253

IPv6Address_isUnicast(this) == BitAnd(this.array[1], 57344) = 8192

IPv6Address_isReserved(this) == this.array[1] \div 256 = 0

IPv6Address_getType(this) ==
  IF IPv6Address_isLocalLink(this) THEN "Link-local"
  ELSE IF IPv6Address_isUnicast(this) THEN "Unicast"
  ELSE IF IPv6Address_isReserved(this) THEN "Reserved"
  ELSE IF IPv6Address_isLoopback(this) THEN "Loopback"
  ELSE IF IPv6Address_isUniqueLocal(this) THEN "Unique Local"
  ELSE IF IPv6Address_isMulticast(this) THEN "Multicast"
  ELSE Null

(***************************************************************************)
(* State                                                                   *)
(*   conv : a formatting / parsing exchange                                *)
(*   sm   : the submask object under construction or use                   *)
(*   ctx  : the network context object                                     *)
(*   ret  : the last call made on the context and what it returned         *)
(*   tun  : a conversion between an IPv4 address and an IPv6 address       *)
(*   obj  : an address made from text and the accessors called on it       *)
(***************************************************************************)
ConvIdle == [pc |-> "idle", version |-> 0, array |-> <<>>, string |-> <<>>,
             parsed |-> Ok(<<>>)]

SmIdle == [pc |-> "idle"]

CtxIdle == [pc |-> "idle"]

RetIdle == [op |-> "none"]

TunIdle == [pc |-> "idle"]

ObjIdle == [pc |-> "idle"]

Init ==
  /\ conv = ConvIdle
  /\ sm = SmIdle
  /\ ctx = CtxIdle
  /\ ret = RetIdle
  /\ tun = TunIdle
  /\ obj = ObjIdle

(***************************************************************************)
(* Formatting and parsing                                                  *)
(***************************************************************************)
stringifyAddress(version, array) ==
  IF version = 4 THEN stringifyIPv4Address(array) ELSE stringifyIPv6Address(array)

parseAddress(version, string) ==
  IF version = 4 THEN parseIPv4Address(string) ELSE parseIPv6Address(string)

\* format a valid word array
Stringify(version, array) ==
  /\ conv.pc = "idle"
  /\ conv' = [pc |-> "string", version |-> version, array |-> array,
              string |-> stringifyAddress(version, array), parsed |-> Ok(<<>>)]
  /\ UNCHANGED <<sm, ctx, ret, tun, obj>>

\* parse the string formatted before
Parse ==
  /\ conv.pc = "string"
  /\ conv' = [conv EXCEPT !.pc = "parsed",
                          !.parsed = parseAddress(conv.version, conv.string)]
  /\ UNCHANGED <<sm, ctx, ret, tun, obj>>

\* the unsigned integer of a valid word array
ArrayToUint(version, array) ==
  /\ conv.pc = "idle"
  /\ conv' = [pc |-> "uint", version |-> version, array |-> array,
              uint |-> arrayToUint(version, array)]
  /\ UNCHANGED <<sm, ctx, ret, tun, obj>>

\* the word array of the unsigned integer computed before
UintToArrayBack ==
  /\ conv.pc = "uint"
  /\ conv' = [pc |-> "array", version |-> conv.version, array |-> conv.array,
              uint |-> conv.uint, back |-> UintToArray(conv.version, conv.uint)]
  /\ UNCHANGED <<sm, ctx, ret, tun, obj>>

\* fromBinaryString / fromHexString on a string: the address, or the error
AddressFromDigits(op, version, string) ==
  /\ conv.pc = "idle"
  /\ \E result \in {IF op = "fromBinaryString"
                     THEN Address_fromBinaryString(version, string)
                     ELSE Address_fromHexString(version, string)} :
       conv' = [pc |-> IF result.ok THEN "address" ELSE "refused",
                op |-> op, version |-> version, string |-> string,
                result |-> result]
  /\ UNCHANGED <<sm, ctx, ret, tun, obj>>

\* toBinaryString / toHexString on the address made before
AddressToDigits ==
  /\ conv.pc = "address"
  /\ \E uint \in {Address_toUint(conv.result.value)._uint[1]} :
       conv' = [pc |-> "digits", op |-> conv.op, version |-> conv.version,
                string |-> conv.string, result |-> conv.result,
                text |-> IF conv.op = "fromBinaryString"
                         THEN toBinaryString(conv.version, uint)
                         ELSE toHexString(conv.version, uint)]
  /\ UNCHANGED <<sm, ctx, ret, tun, obj>>

\* a digit string and what becomes of it when it is cut, extended, padded
\* with a space at either end, given a character that is no digit, or put
\* in upper case
DigitStringsNear(string, noDigit) ==
  {string,
   SubSeq(string, 1, Len(string) - 1),
   string \o <<"0">>,
   [string EXCEPT ![Len(string)] = " "],
   [string EXCEPT ![1] = " "],
   [string EXCEPT ![2] = noDigit],
   Force([i \in 1..Len(string) |->
            IF SeqContains(LowerCaseLetters, string[i])
            THEN UpperCaseLetters[IndexOf(LowerCaseLetters, string[i]) + 1]
            ELSE string[i]])}

\* parseIPv4Address / parseIPv6Address on a text: the array, or the error
ParseText(version, string) ==
  /\ conv.pc = "idle"
  /\ conv' = [pc |-> "text", version |-> version, string |-> string,
              parsed |-> parseAddress(version, string)]
  /\ UNCHANGED <<sm, ctx, ret, tun, obj>>

\* tokens of an IPv4 text: decimal literals in and out of range, the empty
\* token, a hex literal, an exponent literal, a padded literal, a letter
IPv4Tokens ==
  {<<"0">>, <<"2", "5", "5">>, <<"2", "5", "6">>, <<>>, <<"0", "x", "1", "0">>,
   <<"1", "e", "2">>, <<" ", "1">>, <<"a">>}

\* IPv4 texts of three, four and five tokens
IPv4Texts ==
  {Join(tokens, <<".">>) : tokens \in [1..4 -> IPv4Tokens]}
    \cup {Join(tokens, <<".">>) :
            tokens \in [1..3 -> {<<"1">>}] \cup [1..5 -> {<<"1">>}]}

\* groups of an IPv6 text: one to four hex digits, five hex digits, a padded
\* group
IPv6Groups ==
  {<<"1">>, <<"f", "f", "f", "f">>, <<"0", "0", "0", "0", "1">>,
   <<"1", "2", "3", "4", "5">>, <<" ", "1", "2">>}

\* IPv6 texts: three to nine parts, each empty or "1" (so with no, one or
\* several "::"), and eight parts with one of the groups in front
IPv6Texts ==
  {Join(parts, <<":">>) :
     parts \in UNION {[1..n -> {<<"1">>, <<>>}] : n \in {3, 7, 8, 9}}}
    \cup {Join(<<group>> \o parts, <<":">>) :
            group \in IPv6Groups,
            parts \in {Force([i \in 1..7 |-> <<"2">>]), <<<<>>, <<"2">>>>}}

\* the addresses the documentation formats
ExampleArrays(version) ==
  IF version = 4 THEN {<<192, 168, 1, 1>>}
  ELSE {<<8193, 3512, 0, 0, 0, 0, 0, 1>>, <<8193, 3512, 0, 0, 1, 0, 0, 1>>}

NextConv ==
  \/ /\ conv.pc = "idle"
     /\ \E version \in Versions :
          \E array \in SampleArrays(version) \cup ExampleArrays(version) :
            Stringify(version, array)
  \/ Parse
  \/ /\ conv.pc = "idle"
     /\ \E version \in Versions : \E array \in SampleArrays(version) :
          ArrayToUint(version, array)
  \/ UintToArrayBack
  \/ /\ conv.pc = "idle"
     /\ \E version \in Versions : \E array \in SampleArrays(version) :
          \E string \in DigitStringsNear(
                          toBinaryString(version, arrayToUint(version, array)), "2") :
            AddressFromDigits("fromBinaryString", version, string)
  \/ /\ conv.pc = "idle"
     /\ \E version \in Versions : \E array \in SampleArrays(version) :
          \E string \in DigitStringsNear(
                          toHexString(version, arrayToUint(version, array)), "g") :
            AddressFromDigits("fromHexString", version, string)
  \/ AddressToDigits
  \/ /\ conv.pc = "idle"
     /\ \E string \in IPv4Texts : ParseText(4, string)
  \/ /\ conv.pc = "idle"
     /\ \E string \in IPv6Texts : ParseText(6, string)

SpecConv == Init /\ [][NextConv]_vars

(***************************************************************************)
(* Submask factories and getters                                           *)
(***************************************************************************)
SmCall(op, version, arg, result) ==
  /\ sm.pc = "idle"
  /\ sm' = [pc |-> IF result.ok THEN "object" ELSE "thrown",
            op |-> op, version |-> version, arg |-> arg, result |-> result]
  /\ UNCHANGED <<conv, ctx, ret, tun, obj>>

FromCidr(version, cidr) ==
  SmCall("fromCidr", version, cidr, Submask_fromCidr(version, cidr))

FromHosts(version, hosts) ==
  SmCall("fromHosts", version, hosts, Submask_fromHosts(version, hosts))

\* new IPv4Submask(items), new IPv6Submask(items)
NewFromArray(version, items) ==
  SmCall("constructor", version, items,
         NewSubmask(version, items, TRUE, NoKnownProperties))

FromString(version, string) ==
  SmCall("fromString", version, string, Submask_fromString(version, string))

FromByteArray(version, bytes) ==
  SmCall("fromByteArray", version, bytes, Submask_fromByteArray(version, bytes))

FromUint(version, uint) ==
  SmCall("fromUint", version, uint, Submask_fromUint(version, uint))

FromBinaryString(version, binaryString) ==
  SmCall("fromBinaryString", version, binaryString,
         Submask_fromBinaryString(version, binaryString))

FromHexString(version, hexString) ==
  SmCall("fromHexString", version, hexString,
         Submask_fromHexString(version, hexString))

\* the getters of a submask: the object after the call; a call that finds
\* its value memoized leaves the object as it is
GetCidr ==
  /\ sm.pc = "object"
  /\ sm' = [sm EXCEPT !.result.value = Submask_cidr(sm.result.value)]
  /\ sm' # sm
  /\ UNCHANGED <<conv, ctx, ret, tun, obj>>

GetSize ==
  /\ sm.pc = "object"
  /\ sm' = [sm EXCEPT !.result.value = Submask_size(sm.result.value)]
  /\ sm' # sm
  /\ UNCHANGED <<conv, ctx, ret, tun, obj>>

GetHosts ==
  /\ sm.pc = "object"
  /\ sm' = [sm EXCEPT !.result.value = Submask_hosts(sm.result.value)]
  /\ sm' # sm
  /\ UNCHANGED <<conv, ctx, ret, tun, obj>>

\* isCorrectSubmask(version, items): what is returned
IsCorrectSubmask(version, items) ==
  /\ sm.pc = "idle"
  /\ sm' = [pc |-> "checked", op |-> "isCorrectSubmask", version |-> version,
            arg |-> items, result |-> isCorrectSubmask(version, items)]
  /\ UNCHANGED <<conv, ctx, ret, tun, obj>>

\* word arrays handed to isCorrectSubmask: the arrays of the factories, the
\* documented ones, and arrays with a word out of range, a word too many or
\* too few, or a one after a zero
SubmaskCandidates(version) ==
  MaskArrays(version) \cup MalformedArrays(version)
    \cup {SubSeq(m, 1, arrayLength(version) - 1) : m \in PrefixMasks(version)}
    \cup {m \o <<0>> : m \in PrefixMasks(version)}
    \cup {[m EXCEPT ![i] = w] : m \in PrefixMasks(version),
                                i \in {1, 2, arrayLength(version)},
                                w \in {-1, 1, itemMax(version) - 1, itemMax(version) + 1}}
    \cup (IF version = 4
          THEN {<<255, 240, 0, 0>>, <<255, 0, 255, 0>>, <<128, 128, 0, 0>>}
          ELSE {<<65535, 61440, 0, 0, 0, 0, 0, 0>>, <<65535, 0, 65535, 0, 0, 0, 0, 0>>})

NextMask ==
  \/ /\ sm.pc = "idle"
     /\ \E version \in Versions : \E cidr \in SampleCidrs(version) :
          FromCidr(version, cidr)
  \/ /\ sm.pc = "idle"
     /\ \E version \in Versions : \E hosts \in SampleHosts(version) :
          FromHosts(version, hosts)
  \/ /\ sm.pc = "idle"
     /\ \E version \in Versions :
          \E items \in MaskArrays(version) \cup MalformedArrays(version) :
            NewFromArray(version, items)
  \/ /\ sm.pc = "idle"
     /\ \E version \in Versions : \E array \in MaskArrays(version) :
          FromString(version, stringifyAddress(version, array))
  \/ /\ sm.pc = "idle"
     /\ \E version \in Versions : \E array \in MaskArrays(version) :
          FromByteArray(version, BytesOf(version, array))
  \/ /\ sm.pc = "idle"
     /\ \E version \in Versions : \E array \in MaskArrays(version) :
          FromUint(version, arrayToUint(version, array))
  \/ /\ sm.pc = "idle"
     /\ \E version \in Versions : \E array \in MaskArrays(version) :
          FromBinaryString(version, toBinaryString(version, arrayToUint(version, array)))
  \/ /\ sm.pc = "idle"
     /\ \E version \in Versions : \E array \in MaskArrays(version) :
          FromHexString(version, toHexString(version, arrayToUint(version, array)))
  \/ /\ sm.pc = "idle"
     /\ \E version \in Versions : \E items \in SubmaskCandidates(version) :
          IsCorrectSubmask(version, items)
  \/ GetCidr
  \/ GetSize
  \/ GetHosts

SpecMask == Init /\ [][NextMask]_vars

\* C1: parsing the formatted string of a valid word array gives the array
\* back, for IPv4 and for IPv6, whatever the position and length of the
\* compressed zero run
C1_RoundTrip ==
  conv.pc = "parsed" => conv.parsed.ok /\ conv.parsed.value = conv.array

\* a round trip through a string whose compressed run is trailing
C1_Witness ==
  /\ conv.pc = "parsed"
  /\ conv.version = 6
  /\ conv.array[1] # 0 /\ conv.array[7] = 0 /\ conv.array[8] = 0
  /\ Len(conv.string) >= 2
  /\ conv.string[Len(conv.string)] = ":" /\ conv.string[Len(conv.string) - 1] = ":"

(***************************************************************************)
(* Contexts                                                                *)
(***************************************************************************)
\* new IPv4Context / IPv6Context on an address and a submask made from a
\* prefix length
CreateContext(version, items, maskVersion, cidr) ==
  LET made == NewContext(NewAddress(version, items, TRUE, Undefined).value,
                         Submask_fromCidr(maskVersion, cidr).value)
  IN  /\ ctx.pc = "idle"
      /\ ctx' = IF made.ok THEN [pc |-> "context", this |-> made.value]
                ELSE [pc |-> "thrown", error |-> made.error, type |-> made.type]
      /\ ret' = [op |-> "constructor"]
      /\ UNCHANGED <<conv, sm, tun, obj>>

\* the getters of the context: the object after the call, and what is returned
GetNetwork ==
  /\ ctx.pc = "context"
  /\ ctx' = [ctx EXCEPT !.this = Context_network(ctx.this)]
  /\ ret' = [op |-> "network", value |-> ctx'.this._network[1]]
  /\ UNCHANGED <<conv, sm, tun, obj>>

GetFirstHost ==
  /\ ctx.pc = "context"
  /\ ctx' = [ctx EXCEPT !.this = Context_firstHost(ctx.this)]
  /\ ret' = [op |-> "firstHost", value |-> ctx'.this._firstHost[1]]
  /\ UNCHANGED <<conv, sm, tun, obj>>

GetLastHost ==
  /\ ctx.pc = "context"
  /\ ctx' = [ctx EXCEPT !.this = Context_lastHost(ctx.this)]
  /\ ret' = [op |-> "lastHost", value |-> ctx'.this._lastHost[1]]
  /\ UNCHANGED <<conv, sm, tun, obj>>

GetBroadcast ==
  /\ ctx.pc = "context" /\ ctx.this.version = 4
  /\ ctx' = [ctx EXCEPT !.this = Context_broadcast(ctx.this)]
  /\ ret' = [op |-> "broadcast", value |-> ctx'.this._broadcast[1]]
  /\ UNCHANGED <<conv, sm, tun, obj>>

\* the candidate address object of a word array
Candidate(version, items) == NewAddress(version, items, TRUE, Undefined).value

IsHost(items) ==
  /\ ctx.pc = "context"
  /\ \E r \in {Context_isHost(ctx.this, Candidate(ctx.this.version, items))} :
       /\ ctx' = [ctx EXCEPT !.this = r.this]
       /\ ret' = [op |-> "isHost", arg |-> items, value |-> r.value]
  /\ UNCHANGED <<conv, sm, tun, obj>>

Includes(items) ==
  /\ ctx.pc = "context"
  /\ \E r \in {Context_includes(ctx.this, Candidate(ctx.this.version, items))} :
       /\ ctx' = [ctx EXCEPT !.this = r.this]
       /\ ret' = [op |-> "includes", arg |-> items, value |-> r.value]
  /\ UNCHANGED <<conv, sm, tun, obj>>

\* candidates a.a.a.c (IPv4) and a:a:a:a:a:a:a:c (IPv6), and the two ends of
\* the context's range
CandidateArrays(this) ==
  {Force([i \in 1..arrayLength(this.version) |->
            IF i = arrayLength(this.version) THEN c ELSE a]) :
     a \in CtxWords(this.version), c \in CtxWords(this.version)}
    \cup {and(this.version, this.address.array, this.submask.array),
          or(this.version, this.address.array, not(this.version, this.submask.array))}

\* context(firstParam, secondParam): the context made from text, or the error
ContextOf(firstParam, secondParam) ==
  /\ ctx.pc = "idle"
  /\ \E made \in {context(firstParam, secondParam)} :
       ctx' = IF made.ok THEN [pc |-> "context", this |-> made.value]
              ELSE [pc |-> "thrown", error |-> made.error, type |-> made.type]
  /\ ret' = [op |-> "context", firstParam |-> firstParam, secondParam |-> secondParam]
  /\ UNCHANGED <<conv, sm, tun, obj>>

\* first octets on both sides of every class boundary
ClassOctets == {0, 10, 127, 128, 172, 191, 192, 223, 224, 239, 240, 255}

\* the reverse-nibble name of an IPv6 word array
Ip6ArpaString(array) ==
  Join(Force([k \in 1..32 |->
          <<HexDigits[((array[8 - ((k - 1) \div 4)] \div (16 ^ ((k - 1) % 4))) % 16) + 1]>>]),
       <<".">>) \o DotIp6Arpa

\* texts handed to context(): IPv4 addresses of every class alone, with a
\* prefix length and with a submask, IPv6 addresses in their four notations,
\* and malformed texts
ContextTexts ==
  LET v4(o) == stringifyIPv4Address(<<o, 168, 1, 25>>)
      v6 == stringifyIPv6Address(<<8193, 3512, 0, 0, 0, 0, 0, 1>>)
      none == <<>>
      call(first, second) == [firstParam |-> first, secondParam |-> second]
  IN  {call(v4(o), none) : o \in ClassOctets}
        \cup {call(v4(o) \o <<"/">> \o c, none) :
                o \in {10, 224},
                c \in {<<"2", "4">>, <<"3", "3">>, <<"x">>, <<>>, <<"8", "/", "8">>}}
        \cup {call(v4(o), stringifyIPv4Address(mask)) :
                o \in {192, 240},
                mask \in {<<255, 255, 255, 0>>, <<255, 0, 255, 0>>}}
        \cup {call(v4(192), stringifyIPv6Address(CIDR_TO_MASK(6)[64])),
              call(<<"3", "0", "0">> \o v4(1), none),
              call(v6, none),
              call(v6, stringifyIPv6Address(CIDR_TO_MASK(6)[64])),
              call(v6 \o <<"/", "6", "4">>, none),
              call(v6 \o <<"%", "e", "t", "h", "0", "/", "6", "4">>, none),
              call(v6 \o <<"%", "e", "!", "/", "6", "4">>, none),
              call(MappedPrefix \o v4(10) \o <<"/", "9", "6">>, none),
              call(Ip6ArpaString(<<8193, 3512, 0, 0, 0, 0, 0, 1>>) \o <<"/", "6", "4">>, none),
              call(<<"1", ".">> \o Ip6ArpaString(<<8193, 3512, 0, 0, 0, 0, 0, 1>>), none)}

NextCtx ==
  \/ /\ ctx.pc = "idle"
     /\ \E version \in Versions, maskVersion \in Versions :
          \E items \in CtxArrays(version), cidr \in CtxCidrs(maskVersion) :
            CreateContext(version, items, maskVersion, cidr)
  \/ /\ ctx.pc = "idle"
     /\ \E text \in ContextTexts : ContextOf(text.firstParam, text.secondParam)
  \/ GetNetwork
  \/ GetFirstHost
  \/ GetLastHost
  \/ GetBroadcast
  \/ /\ ctx.pc = "context"
     /\ \E items \in CandidateArrays(ctx.this) : IsHost(items)
  \/ /\ ctx.pc = "context"
     /\ \E items \in CandidateArrays(ctx.this) : Includes(items)

SpecCtx == Init /\ [][NextCtx]_vars

(***************************************************************************)
(* Tunneling                                                               *)
(***************************************************************************)
TunnelingModes == {"Mapped", "SixToFour", "Teredo"}

\* new IPv4Address(items).toIPv6Address(mode, params): the IPv6 address, or
\* the error thrown
ToIPv6Address(items, mode, params) ==
  /\ tun.pc = "idle"
  /\ \E ipv4 \in {NewAddress(4, items, TRUE, Undefined).value} :
     \E result \in {toIPv6Address(ipv4, mode, params)} :
       tun' = [pc |-> IF result.ok THEN "ipv6" ELSE "thrown",
               mode |-> mode, ipv4 |-> ipv4, params |-> params, result |-> result]
  /\ UNCHANGED <<conv, sm, ctx, ret, obj>>

\* toIPv4Address(mode) on the IPv6 address made before, in the same mode
BackToIPv4Address ==
  /\ tun.pc = "ipv6"
  /\ tun' = [pc |-> "back", mode |-> tun.mode, ipv4 |-> tun.ipv4,
             params |-> tun.params, result |-> tun.result,
             back |-> toIPv4Address(tun.result.value, tun.mode)]
  /\ UNCHANGED <<conv, sm, ctx, ret, obj>>

\* new IPv6Address(items).toIPv4Address(mode): the IPv4 address, or the
\* error thrown
ToIPv4Address(items, mode) ==
  /\ tun.pc = "idle"
  /\ \E ipv6 \in {NewAddress(6, items, TRUE, Undefined).value} :
       tun' = [pc |-> "ipv4", mode |-> mode, ipv6 |-> ipv6,
               result |-> toIPv4Address(ipv6, mode)]
  /\ UNCHANGED <<conv, sm, ctx, ret, obj>>

\* flags and ports on both sides of the ends of the 16-bit range
TeredoNumbers == {-1, 0, 1, 32768, 65534, 65535, 65536, 65537}

TeredoServers == {<<65, 54, 227, 120>>, <<0, 0, 0, 0>>, <<255, 255, 255, 255>>}

TeredoParams ==
  [ipv4 : TeredoServers, flags : TeredoNumbers, port : TeredoNumbers]

\* IPv6 arrays with the prefix of a mode, and the same with one word of the
\* prefix changed
TunnelArrays6 ==
  LET prefixes == {<<0, 0, 0, 0, 0, 65535>>, <<8194, 0, 0, 0, 0, 0>>,
                   <<8193, 0, 0, 0, 0, 0>>, <<8193, 0, 16384, 0, 0, 65535>>}
      changed(prefix) == {[prefix EXCEPT ![i] = w] : i \in 1..6, w \in {0, 1, 8193, 8194, 65535}}
      tails == {<<a, b>> : a \in SampleOctets, b \in {258, 65535}}
  IN  {prefix \o tail : prefix \in UNION {changed(q) : q \in prefixes}, tail \in tails}

NextTunnel ==
  \/ /\ tun.pc = "idle"
     /\ \E items \in SampleArrays4, mode \in {"Mapped", "SixToFour"} :
          ToIPv6Address(items, mode, Undefined)
  \/ /\ tun.pc = "idle"
     /\ \E items \in SampleArrays4, params \in TeredoParams :
          ToIPv6Address(items, "Teredo", params)
  \/ BackToIPv4Address
  \/ /\ tun.pc = "idle"
     /\ \E items \in TunnelArrays6 \cup SampleArrays6, mode \in TunnelingModes :
          ToIPv4Address(items, mode)

SpecTunnel == Init /\ [][NextTunnel]_vars

(***************************************************************************)
(* Addresses made from text, and their accessors                           *)
(***************************************************************************)
\* how many accessor calls are made on one address object
MaxCalls == 3

\* how often each derived representation of the object has been computed
NoneComputed ==
  [string |-> 0, uint |-> 0, byteArray |-> 0, binaryString |-> 0,
   hexString |-> 0, ip6ArpaString |-> 0]

\* a new address object: the Address fields, the IPv6Address fields, and
\* what the accessors have done so far
NewObject(op, text, address, zoneId, ip6ArpaString, origin) ==
  [pc |-> "address", op |-> op, text |-> text, origin |-> origin,
   this |-> address, zoneId |-> zoneId,
   _string |-> Undefined, _byteArray |-> Undefined,
   _ip6ArpaString |-> ip6ArpaString,
   computed |-> NoneComputed, calls |-> 0, call |-> Null, returned |-> Undefined]

ThrownBy(op, text, made, origin) ==
  [pc |-> "thrown", op |-> op, text |-> text, origin |-> origin,
   error |-> made.error, type |-> made.type]

\* the zone id and the known ip6.arpa string the factory behind ip(text)
\* hands to the constructor
zoneIdOf(text) ==
  IF getIPv6AddressStringType(text) \in {"mapped", "normal"}
  THEN hasZoneId(text).zoneId ELSE Undefined

ip6ArpaStringOf(text) ==
  IF getIPv6AddressStringType(text) = "ip6.arpa" THEN Known(ToLowerCase(text))
  ELSE Undefined

\* ip(text): the address object, or the error thrown
Ip(text) ==
  /\ obj.pc = "idle"
  /\ \E made \in {ip(text)} :
       obj' = IF made.ok
              THEN NewObject("ip", text, made.value, zoneIdOf(text),
                             ip6ArpaStringOf(text), <<>>)
              ELSE ThrownBy("ip", text, made, <<>>)
  /\ UNCHANGED <<conv, sm, ctx, ret, tun>>

\* new IPv4Address(items) / new IPv6Address(items)
NewAddressObject(version, items) ==
  /\ obj.pc = "idle"
  /\ \E made \in {NewAddress(version, items, TRUE, Undefined)} :
       obj' = IF made.ok
              THEN NewObject("new", <<>>, made.value, Undefined, Undefined, <<>>)
              ELSE ThrownBy("new", <<>>, made, <<>>)
  /\ UNCHANGED <<conv, sm, ctx, ret, tun>>

\* IPv6Address.fromIP6ArpaString(string)
FromIP6ArpaString(string) ==
  /\ obj.pc = "idle"
  /\ \E made \in {IPv6Address_fromIP6ArpaString(string)} :
       obj' = IF made.ok
              THEN NewObject("fromIP6ArpaString", string, made.value, Undefined,
                             Known(ToLowerCase(string)), <<>>)
              ELSE ThrownBy("fromIP6ArpaString", string, made, <<>>)
  /\ UNCHANGED <<conv, sm, ctx, ret, tun>>

\* IPv6Address.fromIP6ArpaString on the string toIP6ArpaString has returned
FromReturnedIP6ArpaString ==
  /\ obj.pc = "address"
  /\ obj.call = "toIP6ArpaString"
  /\ \E made \in {IPv6Address_fromIP6ArpaString(obj.returned[1])} :
       obj' = IF made.ok
              THEN NewObject("fromIP6ArpaString", obj.returned[1], made.value,
                             Undefined, Known(ToLowerCase(obj.returned[1])),
                             obj.this.array)
              ELSE ThrownBy("fromIP6ArpaString", obj.returned[1], made, obj.this.array)
  /\ UNCHANGED <<conv, sm, ctx, ret, tun>>

\* one more computation of a derived representation
Computing(computed, name, assigns) ==
  IF assigns THEN [computed EXCEPT ![name] = @ + 1] ELSE computed

\* an accessor call on the object: the object after it and what is returned
Accessed(call, after, returned) ==
  /\ obj' = [after EXCEPT !.call = call, !.calls = obj.calls + 1,
                          !.returned = Known(returned)]
  /\ UNCHANGED <<conv, sm, ctx, ret, tun>>

\* the object after this.toUint()
AfterToUint(o) ==
  [o EXCEPT !.this = Address_toUint(o.this),
            !.computed = Computing(o.computed, "uint", o.this._uint = Undefined)]

\* toString(): memoized in _string; the zone id is shown on a link-local address
CallToString ==
  /\ obj.pc = "address" /\ obj.calls < MaxCalls
  /\ \E after \in {[obj EXCEPT
                      !._string = IF obj._string = Undefined
                                  THEN Known(stringifyAddress(obj.this.version, obj.this.array))
                                  ELSE obj._string,
                      !.computed = Computing(obj.computed, "string", obj._string = Undefined)]} :
       Accessed("toString", after,
                after._string[1] \o
                  (IF obj.this.version = 6 /\ IPv6Address_isLocalLink(obj.this)
                        /\ obj.zoneId # Undefined
                   THEN <<"%">> \o obj.zoneId[1] ELSE <<>>))

\* toUint(): memoized in _uint
ToUint ==
  /\ obj.pc = "address" /\ obj.calls < MaxCalls
  /\ \E after \in {AfterToUint(obj)} : Accessed("toUint", after, after.this._uint[1])

\* toByteArray(): the array itself for IPv4, memoized in _byteArray for IPv6
ToByteArray ==
  /\ obj.pc = "address" /\ obj.calls < MaxCalls
  /\ \E after \in {IF obj.this.version = 4 THEN obj
                   ELSE [obj EXCEPT
                           !._byteArray = IF obj._byteArray = Undefined
                                          THEN Known(uint16ArrayToByteArray(obj.this.array))
                                          ELSE obj._byteArray,
                           !.computed = Computing(obj.computed, "byteArray",
                                                  obj._byteArray = Undefined)]} :
       Accessed("toByteArray", after,
                IF obj.this.version = 4 THEN obj.this.array ELSE after._byteArray[1])

\* toBinaryString(): this.toUint().toString(2).padStart(totalBits, "0")
ToBinaryString ==
  /\ obj.pc = "address" /\ obj.calls < MaxCalls
  /\ \E after \in {[AfterToUint(obj) EXCEPT !.computed.binaryString = @ + 1]} :
       Accessed("toBinaryString", after,
                toBinaryString(obj.this.version, after.this._uint[1]))

\* the object after this.toHexString()
AfterToHexString(o) == [AfterToUint(o) EXCEPT !.computed.hexString = @ + 1]

\* toHexString(): this.toUint().toString(16).padStart(totalBits / 4, "0")
ToHexString ==
  /\ obj.pc = "address" /\ obj.calls < MaxCalls
  /\ \E after \in {AfterToHexString(obj)} :
       Accessed("toHexString", after,
                toHexString(obj.this.version, after.this._uint[1]))

\* toIP6ArpaString(): memoized in _ip6ArpaString, made of this.toHexString()
ToIP6ArpaString ==
  /\ obj.pc = "address" /\ obj.calls < MaxCalls
  /\ obj.this.version = 6
  /\ \E after \in {IF obj._ip6ArpaString # Undefined THEN obj
                   ELSE [AfterToHexString(obj) EXCEPT
                           !._ip6ArpaString =
                              Known(IPv6Address_toIP6ArpaString(
                                      toHexString(6, arrayToUint(6, obj.this.array)))),
                           !.computed.ip6ArpaString = @ + 1]} :
       Accessed("toIP6ArpaString", after, after._ip6ArpaString[1])

\* getType() of an IPv6 address; isLoopback, when it is reached, calls toUint
GetType ==
  /\ obj.pc = "address" /\ obj.calls < MaxCalls
  /\ obj.this.version = 6
  /\ \E after \in {IF IPv6Address_isLocalLink(obj.this) \/ IPv6Address_isUnicast(obj.this)
                        \/ IPv6Address_isReserved(obj.this)
                   THEN obj ELSE AfterToUint(obj)} :
       Accessed("getType", after, IPv6Address_getType(obj.this))

\* isValidAddress(text): what is returned
IsValidAddress(text) ==
  /\ obj.pc = "idle"
  /\ obj' = [pc |-> "returned", op |-> "isValidAddress", text |-> text,
             result |-> isValidAddress(text)]
  /\ UNCHANGED <<conv, sm, ctx, ret, tun>>

\* IPv6 word arrays of the accessor runs: the loopback address, addresses
\* of every type, and addresses with the prefix of a mapped address
AddrArrays6 ==
  {Force([i \in 1..8 |-> IF i = 1 THEN first ELSE IF i = 8 THEN last ELSE 0]) :
     first \in {0, 1, 255, 8193, 65152, 64768, 65280, 16384},
     last \in {0, 1, 43981}}
    \cup {<<0, 0, 0, 0, 0, 65535, a, b>> : a \in {0, 49320}, b \in {1, 257}}
    \cup {<<8193, 3512, 0, 0, 1, 0, 0, 1>>,
          <<4660, 22136, 39612, 57072, 4660, 22136, 39612, 57072>>}

AddrArrays4 == {<<192, 168, 1, 1>>, <<0, 0, 0, 0>>, <<255, 255, 255, 255>>, <<127, 0, 0, 1>>}

\* tokens of the IPv4 texts handed to ip and isValidAddress
AddrTokens == {<<"0">>, <<"2", "5", "5">>, <<"2", "5", "6">>, <<"a">>, <<>>}

\* texts handed to ip and isValidAddress: the four notations, well formed
\* and malformed
AddressTexts ==
  LET arpa == Ip6ArpaString(<<8193, 3512, 0, 0, 0, 0, 0, 43981>>)
  IN  {Join(tokens, <<".">>) : tokens \in [1..4 -> AddrTokens]}
        \cup {Join(tokens, <<".">>) :
                tokens \in [1..3 -> {<<"1">>}] \cup [1..5 -> {<<"1">>}]}
        \cup {stringifyIPv6Address(array) : array \in AddrArrays6}
        \cup {stringifyIPv6Address(array) \o zone :
                array \in {<<65152, 0, 0, 0, 0, 0, 0, 1>>, <<8193, 0, 0, 0, 0, 0, 0, 1>>},
                zone \in {<<"%", "e", "t", "h", "0">>, <<"%", "e", "!">>, <<"%">>}}
        \cup {Join(parts, <<":">>) : parts \in [1..3 -> {<<"1">>, <<>>}]}
        \cup {MappedPrefix \o tail :
                tail \in {stringifyIPv4Address(<<192, 168, 1, 1>>),
                          <<"9", "9", "9", ".", "1", ".", "1", ".", "1">>,
                          <<"1", ".", "2">>, <<"x">>, <<>>,
                          <<"1", ".", "2", ".", "3", ".", "4", "%", "e", "t", "h", "0">>}}
        \cup {arpa, ToUpperCase(arpa),
              <<"g">> \o Tail(arpa), <<".">> \o Tail(arpa),
              <<"1", ".">> \o arpa, Tail(Tail(arpa)),
              SubSeq(arpa, 1, 54) \o DotIp6Arpa \o DotIp6Arpa,
              <<"d", "c", ".", ".">> \o SubSeq(arpa, 5, Len(arpa)),
              <<>>, <<"x">>}

\* texts handed to IPv6Address.fromIP6ArpaString
Ip6ArpaTexts ==
  {text \in AddressTexts : Len(text) >= 60}
    \cup {Ip6ArpaString(array) : array \in AddrArrays6}
    \cup {ToUpperCase(SubSeq(Ip6ArpaString(array), 1, 63)) \o DotIp6Arpa :
             array \in {<<8193, 3512, 0, 0, 0, 0, 0, 43981>>}}
    \cup {<<>>, DotIp6Arpa, stringifyIPv6Address(<<8193, 3512, 0, 0, 0, 0, 0, 1>>)}

NextAddr ==
  \/ /\ obj.pc = "idle"
     /\ \E text \in AddressTexts : Ip(text)
  \/ /\ obj.pc = "idle"
     /\ \E text \in AddressTexts : IsValidAddress(text)
  \/ /\ obj.pc = "idle"
     /\ \E array \in AddrArrays6 : NewAddressObject(6, array)
  \/ /\ obj.pc = "idle"
     /\ \E array \in AddrArrays4 : NewAddressObject(4, array)
  \/ /\ obj.pc = "idle"
     /\ \E text \in Ip6ArpaTexts : FromIP6ArpaString(text)
  \/ FromReturnedIP6ArpaString
  \/ CallToString
  \/ ToUint
  \/ ToByteArray
  \/ ToBinaryString
  \/ ToHexString
  \/ ToIP6ArpaString
  \/ GetType

SpecAddr == Init /\ [][NextAddr]_vars

(***************************************************************************)
(* Submask properties                                                      *)
(***************************************************************************)
\* the value the getter hosts returns on a submask object
HostsOf(this) == Submask_hosts(this)._hosts[1]

\* C3: for every accepted host count H, fromHosts(H).hosts >= H, and no valid
\* submask of the same version with a longer prefix has hosts >= H
C3_FromHostsSmallest ==
  (sm.pc = "object" /\ sm.op = "fromHosts") =>
    /\ NumLeq(sm.arg, HostsOf(sm.result.value))
    /\ \A n \in (sm.result.value._cidr[1] + 1)..totalBits(sm.version) :
         ~NumLeq(sm.arg, HostsOf(Submask_fromCidr(sm.version, n).value))

\* C4: fromHosts returns a submask for every H with 0 <= H <= 2^W, and raises
\* ContextError invalid-hosts-number for every other H; the untyped error
\* after the scan is never raised
C4_FromHostsDomain ==
  (sm.pc # "idle" /\ sm.op = "fromHosts") =>
    IF NumLeq(NumZero, sm.arg) /\ NumLeq(sm.arg, Pow2(totalBits(sm.version)))
    THEN sm.result.ok
    ELSE /\ ~sm.result.ok
         /\ sm.result.error = "ContextError"
         /\ sm.result.type = "invalid-hosts-number"

\* C5: for every prefix length n in 0..totalBits, the size reported by
\* fromCidr(n) is 2^(totalBits - n), a positive integer
C5_SizeIsPowerOfTwo ==
  (sm.pc = "object" /\ sm.op = "fromCidr" /\ sm.result.value._size # Undefined) =>
    /\ sm.result.value._size[1] = Pow2(totalBits(sm.version) - sm.arg)
    /\ NumLess(NumZero, sm.result.value._size[1])

\* the host count the documentation gives for a prefix length
DocumentedHosts(version, n) ==
  IF version = 4
  THEN IF n = 32 THEN NumOfInt(1)
       ELSE IF n = 31 THEN NumOfInt(2)
       ELSE NumSub(Pow2(32 - n), NumOfInt(2))
  ELSE IF n = 128 THEN NumOfInt(1)
       ELSE IF n = 127 THEN NumZero
       ELSE NumSub(Pow2(128 - n), NumOfInt(1))

\* C6: for every prefix length n in 0..totalBits, the hosts reported by
\* fromCidr(n) is 2^(32-n) - 2 for IPv4 (1 for /32, 2 for /31) and
\* 2^(128-n) - 1 for IPv6 (1 for /128, 0 for /127)
C6_HostsOfCidr ==
  (sm.pc = "object" /\ sm.op = "fromCidr" /\ sm.result.value._hosts # Undefined) =>
    sm.result.value._hosts[1] = DocumentedHosts(sm.version, sm.arg)

\* bit k (1 is the most significant) of a word array
BitAt(version, array, k) ==
  (array[((k - 1) \div bitsByItem(version)) + 1]
     \div Pow2Int(bitsByItem(version) - 1 - ((k - 1) % bitsByItem(version)))) % 2

\* every 1-bit precedes every 0-bit
OnesBeforeZeros(version, array) ==
  /\ Len(array) = arrayLength(version)
  /\ \A k \in 1..(totalBits(version) - 1) :
       BitAt(version, array, k) = 0 => BitAt(version, array, k + 1) = 0

CallerDataFactories ==
  {"constructor", "fromString", "fromByteArray", "fromUint", "fromBinaryString",
   "fromHexString"}

\* C7: a submask made from caller-supplied data has every 1-bit before every
\* 0-bit; data that breaks this raises IncorrectAddressError and no submask is
\* created
C7_CallerDataIsPrefixMask ==
  (sm.pc # "idle" /\ sm.op \in CallerDataFactories) =>
    IF sm.result.ok
    THEN OnesBeforeZeros(sm.version, sm.result.value.array)
    ELSE sm.result.error = "IncorrectAddressError"

(***************************************************************************)
(* Context properties                                                      *)
(***************************************************************************)
\* address AND submask, and address OR NOT submask, of a context
MaskedAddress(this) == and(this.version, this.address.array, this.submask.array)

LastOfRange(this) ==
  or(this.version, this.address.array, not(this.version, this.submask.array))

\* the value toUint returns on an address object
UintOf(address) == Address_toUint(address)._uint[1]

\* C2: for a candidate inside the network (includes is true), the word-by-word
\* isHost answers what the range check firstHost <= candidate <= lastHost on
\* the unsigned integers answers
C2_IsHostIsRangeCheck ==
  (/\ ctx.pc = "context"
   /\ ret.op = "isHost"
   /\ Context_includes(ctx.this, Candidate(ctx.this.version, ret.arg)).value) =>
    ret.value =
      (/\ NumLeq(UintOf(ctx.this._firstHost[1]),
                 arrayToUint(ctx.this.version, ret.arg))
       /\ NumLeq(arrayToUint(ctx.this.version, ret.arg),
                 UintOf(ctx.this._lastHost[1])))

\* a valid address of a version
IsAddressOf(version, address) ==
  address.version = version /\ isCorrectAddress(version, address.array).valid

\* C8: the network is address AND mask, the last address of the range (the
\* IPv4 broadcast) is address OR NOT mask, firstHost is network + 1, lastHost
\* is broadcast - 1 (IPv4) or the last address of the range (IPv6), and each
\* is a valid address of the version of the context
C8_DerivedAddresses ==
  ctx.pc = "context" =>
    LET this == ctx.this
        number(array) == arrayToUint(this.version, array)
    IN  /\ this._network # Undefined =>
             /\ this._network[1].array = MaskedAddress(this)
             /\ IsAddressOf(this.version, this._network[1])
        /\ this._broadcast # Undefined =>
             /\ this._broadcast[1].array = LastOfRange(this)
             /\ IsAddressOf(this.version, this._broadcast[1])
        /\ this._firstHost # Undefined =>
             /\ number(this._firstHost[1].array)
                  = NumAdd(number(MaskedAddress(this)), NumOfInt(1))
             /\ IsAddressOf(this.version, this._firstHost[1])
        /\ this._lastHost # Undefined =>
             /\ number(this._lastHost[1].array)
                  = IF this.version = 4
                    THEN NumSub(number(LastOfRange(this)), NumOfInt(1))
                    ELSE number(LastOfRange(this))
             /\ IsAddressOf(this.version, this._lastHost[1])

\* C9: includes(c) is true exactly when c AND submask equals address AND
\* submask; it is true for the network address and for the last address of
\* the range
C9_IncludesIsMaskedEquality ==
  (ctx.pc = "context" /\ ret.op = "includes") =>
    /\ ret.value =
         (and(ctx.this.version, ret.arg, ctx.this.submask.array)
            = MaskedAddress(ctx.this))
    /\ ret.arg \in {MaskedAddress(ctx.this), LastOfRange(ctx.this)} => ret.value

\* includes has answered true for the last address of an IPv4 range that is
\* not the network address and has its top bit set
C9_Witness ==
  /\ ctx.pc = "context"
  /\ ret.op = "includes"
  /\ ret.value
  /\ ctx.this.version = 4
  /\ ret.arg = LastOfRange(ctx.this)
  /\ ret.arg # MaskedAddress(ctx.this)
  /\ ret.arg[1] = 255

\* C10: isHost is false for the network address of every context and for the
\* broadcast address of every IPv4 context
C10_NetworkAndBroadcastAreNotHosts ==
  (/\ ctx.pc = "context"
   /\ ret.op = "isHost"
   /\ \/ ret.arg = MaskedAddress(ctx.this)
      \/ ctx.this.version = 4 /\ ret.arg = LastOfRange(ctx.this)) =>
    ~ret.value

(***************************************************************************)
(* Contexts made from text                                                 *)
(***************************************************************************)
\* the prefix length of the class of a first octet, 0 when it has none
ClassCidr(firstOctet) ==
  IF firstOctet < 128 THEN 8
  ELSE IF firstOctet < 192 THEN 16
  ELSE IF firstOctet < 224 THEN 24
  ELSE 0

\* the call handed context() an IPv4 address alone: no prefix length, no
\* submask
IsBareIPv4Call ==
  /\ ret.op = "context"
  /\ ret.secondParam = <<>>
  /\ ~SeqContains(ret.firstParam, "/")
  /\ ~SeqContains(ret.firstParam, ":")
  /\ parseIPv4Address(ret.firstParam).ok

\* C11: context(text) on an IPv4 address with neither prefix length nor
\* submask uses the mask of the address class: /8 below 128, /16 below 192,
\* /24 below 224; for a class D or E address it raises the ContextError
\* ipv4-class-does-not-submask, and IPv4Submask.fromClass is null for D and E
C11_ClassfulContext ==
  IsBareIPv4Call =>
    LET array == parseIPv4Address(ret.firstParam).value
        cidr == ClassCidr(array[1])
    IN  IF array[1] < 224
        THEN /\ ctx.pc = "context"
             /\ ctx.this.address.array = array
             /\ ctx.this.submask.array = CIDR_TO_MASK(4)[cidr]
             /\ Submask_cidr(ctx.this.submask)._cidr = Known(cidr)
        ELSE /\ ctx.pc = "thrown"
             /\ ctx.error = "ContextError"
             /\ ctx.type = "ipv4-class-does-not-submask"
             /\ IPv4Submask_fromClass("D") = Undefined
             /\ IPv4Submask_fromClass("E") = Undefined

\* a class B address at the lower class boundary got its /16 context
C11_Witness ==
  /\ IsBareIPv4Call
  /\ ctx.pc = "context"
  /\ ctx.this.address.array[1] = 128
  /\ ctx.this.submask.array = <<255, 255, 0, 0>>

\* a class D address was refused
C11_WitnessRefused ==
  /\ IsBareIPv4Call
  /\ ctx.pc = "thrown"
  /\ parseIPv4Address(ret.firstParam).value[1] = 224

(***************************************************************************)
(* Tunneling properties                                                    *)
(***************************************************************************)
\* C12: converting an IPv4 address to IPv6 and back in the same mode gives
\* the address back: in Mapped, in SixToFour, and in Teredo with any server
\* address, flags and port toIPv6 accepts
C12_TunnelRoundTrip ==
  tun.pc = "back" =>
    /\ tun.back.ok
    /\ tun.back.value.version = 4
    /\ tun.back.value.array = tun.ipv4.array

\* a Teredo round trip with a client address whose octets are all non-zero
C12_Witness ==
  /\ tun.pc = "back"
  /\ tun.mode = "Teredo"
  /\ tun.params.flags = 32768 /\ tun.params.port = 1
  /\ tun.ipv4.array = <<255, 10, 255, 10>>
  /\ tun.back.ok

\* the validity of an IPv6 word array in a mode, as documented
DocumentedValid(mode, array) ==
  IF mode = "Mapped"
  THEN array[1] = 0 /\ array[2] = 0 /\ array[3] = 0 /\ array[4] = 0
         /\ array[5] = 0 /\ array[6] = 65535
  ELSE IF mode = "SixToFour" THEN array[1] = 8194
  ELSE array[1] = 8193 /\ array[2] = 0

\* C13: toIPv4 of a mode raises the IncorrectAddressError
\* invalid-ipv6-tunneling exactly when isValid of the mode is false; Mapped
\* is valid iff the words 0..4 are 0 and word 5 is 0xFFFF, SixToFour iff
\* word 0 is 0x2002, Teredo iff word 0 is 0x2001 and word 1 is 0; and what
\* toIPv6 of a mode returns is valid in that mode
C13_InvalidTunneling ==
  /\ tun.pc = "ipv4" =>
       /\ isValid(tun.mode, tun.ipv6) = DocumentedValid(tun.mode, tun.ipv6.array)
       /\ isValid(tun.mode, tun.ipv6) => tun.result.ok
       /\ ~isValid(tun.mode, tun.ipv6) =>
            /\ ~tun.result.ok
            /\ tun.result.error = "IncorrectAddressError"
            /\ tun.result.type = "invalid-ipv6-tunneling"
  /\ tun.pc = "ipv6" =>
       /\ isValid(tun.mode, tun.result.value)
       /\ DocumentedValid(tun.mode, tun.result.value.array)

\* a Mapped prefix with a wrong sixth word was refused
C13_Witness ==
  /\ tun.pc = "ipv4"
  /\ tun.mode = "Mapped"
  /\ \A i \in 1..5 : tun.ipv6.array[i] = 0
  /\ tun.ipv6.array[6] = 8193
  /\ ~tun.result.ok

\* the flags and ports toIPv6 of Teredo accepts for the call of the state
AcceptedWith(field, n) ==
  LET params == IF field = "flags" THEN [tun.params EXCEPT !.flags = n]
                ELSE [tun.params EXCEPT !.port = n]
  IN  Teredo_toIPv6(tun.ipv4, params)

\* C14: Teredo.toIPv6 raises teredo-incorrect-flags for flags outside
\* 0..65535 and teredo-incorrect-port for a port outside 0..65535, so two
\* different accepted ports never give the same word 5 and two different
\* accepted flags never give the same word 4
C14_TeredoRange ==
  (tun.pc \in {"ipv6", "thrown"} /\ tun.mode = "Teredo") =>
    /\ tun.params.flags \notin 0..65535 =>
         ~tun.result.ok /\ tun.result.type = "teredo-incorrect-flags"
    /\ (tun.params.flags \in 0..65535 /\ tun.params.port \notin 0..65535) =>
         ~tun.result.ok /\ tun.result.type = "teredo-incorrect-port"
    /\ tun.result.ok =>
         \A n \in TeredoNumbers :
           /\ (n # tun.params.port /\ AcceptedWith("port", n).ok) =>
                AcceptedWith("port", n).value.array[6] # tun.result.value.array[6]
           /\ (n # tun.params.flags /\ AcceptedWith("flags", n).ok) =>
                AcceptedWith("flags", n).value.array[5] # tun.result.value.array[5]

(***************************************************************************)
(* Formatting properties                                                   *)
(***************************************************************************)
\* a 16-bit word in lowercase hex without leading zeros
HexWord(w) ==
  LET digits == <<w \div 4096, (w \div 256) % 16, (w \div 16) % 16, w % 16>>
      first == IF w = 0 THEN 4
               ELSE CHOOSE i \in 1..4 : digits[i] # 0 /\ \A j \in 1..(i - 1) : digits[j] = 0
  IN  Force([k \in 1..(5 - first) |-> HexDigits[digits[first + k - 1] + 1]])

\* the runs of consecutive zero words of an array that cannot be extended,
\* as <<first, last>> (one-based)
ZeroRuns(array) ==
  {run \in (1..Len(array)) \X (1..Len(array)) :
     /\ run[1] <= run[2]
     /\ \A i \in run[1]..run[2] : array[i] = 0
     /\ (run[1] = 1 \/ array[run[1] - 1] # 0)
     /\ (run[2] = Len(array) \/ array[run[2] + 1] # 0)}

\* the earliest of the longest runs
LongestZeroRun(array) ==
  CHOOSE run \in ZeroRuns(array) :
    \A other \in ZeroRuns(array) :
      \/ other[2] - other[1] < run[2] - run[1]
      \/ other[2] - other[1] = run[2] - run[1] /\ run[1] <= other[1]

HexWords(array, from, to) ==
  Join(Force([k \in 1..(to - from + 1) |-> HexWord(array[from + k - 1])]), <<":">>)

\* the documented text of an IPv6 word array
DocumentedIPv6String(array) ==
  IF ZeroRuns(array) = {} THEN HexWords(array, 1, Len(array))
  ELSE LET run == LongestZeroRun(array)
       IN  HexWords(array, 1, run[1] - 1) \o <<":", ":">>
             \o HexWords(array, run[2] + 1, Len(array))

\* C15: stringifyIPv6Address writes the longest run of zero words as "::",
\* the earliest one when several are longest, every other word in lowercase
\* hex without leading zeros joined by ":", nothing compressed when no word
\* is zero, the all-zero address as "::", and 2001:db8:0:0:0:0:0:1 as
\* "2001:db8::1"
C15_StringifyIPv6 ==
  (conv.pc = "string" /\ conv.version = 6) =>
    /\ conv.string = DocumentedIPv6String(conv.array)
    /\ (\A i \in 1..8 : conv.array[i] = 0) => conv.string = <<":", ":">>
    /\ conv.array = <<8193, 3512, 0, 0, 0, 0, 0, 1>> =>
         conv.string = <<"2", "0", "0", "1", ":", "d", "b", "8", ":", ":", "1">>
    /\ (\A i \in 1..8 : conv.array[i] # 0) =>
         Len(Split(conv.string, ":")) = 8 /\ IndexOfPair(conv.string, ":", ":") = -1

\* two zero runs of the same length: the first became "::", the second "0:0"
C15_Witness ==
  /\ conv.pc = "string" /\ conv.version = 6
  /\ conv.array = <<8193, 3512, 0, 0, 1, 0, 0, 1>>
  /\ conv.string = <<"2", "0", "0", "1", ":", "d", "b", "8", ":", ":", "1",
                     ":", "0", ":", "0", ":", "1">>

(***************************************************************************)
(* Table masks                                                             *)
(***************************************************************************)
\* the submask was constructed on the table mask of prefix length n, without
\* a known prefix length, and its getter cidr has run
CidrRecomputedFor(n) ==
  /\ sm.pc = "object"
  /\ sm.op = "constructor"
  /\ n \in 0..totalBits(sm.version)
  /\ sm.arg = CIDR_TO_MASK(sm.version)[n]
  /\ sm.result.value._cidr # Undefined

\* C16: for every n in 0..totalBits the prefix length recomputed from the
\* words of the table mask of n, with no cached value, is n; and different n
\* have different table masks
C16_TableMaskBijection ==
  \A n \in 0..totalBits(6) :
    CidrRecomputedFor(n) =>
      /\ sm.result.value._cidr = Known(n)
      /\ sm.result.value.array = CIDR_TO_MASK(sm.version)[n]
      /\ \A k \in 0..totalBits(sm.version) :
           k # n => CIDR_TO_MASK(sm.version)[k] # sm.arg

\* the prefix length 77, which ends inside a word, was recomputed
C16_Witness ==
  /\ CidrRecomputedFor(77)
  /\ sm.version = 6
  /\ sm.result.value._cidr = Known(77)

(***************************************************************************)
(* Unsigned integers                                                       *)
(***************************************************************************)
\* the big-endian unsigned value of a word array, limb by limb
BigEndianValue(version, array) ==
  IF version = 4
  THEN Force([i \in Limbs |->
                IF i = NumLimbs THEN array[3] * 256 + array[4]
                ELSE IF i = NumLimbs - 1 THEN array[1] * 256 + array[2]
                ELSE 0])
  ELSE Force([i \in Limbs |-> IF i = 1 THEN 0 ELSE array[i - 1]])

\* C17: for every valid word array W, UintToArray(arrayToUint(W)) is W, and
\* arrayToUint(W) is the big-endian unsigned value of W, in 0..2^totalBits - 1
\* (not negative for IPv4 when the first octet is 128 or more)
C17_UintRoundTrip ==
  /\ conv.pc \in {"uint", "array"} =>
       /\ conv.uint = BigEndianValue(conv.version, conv.array)
       /\ ~NumIsNeg(conv.uint)
       /\ NumLess(conv.uint, Pow2(totalBits(conv.version)))
  /\ conv.pc = "array" => conv.back = conv.array

\* an IPv4 array whose first octet has its top bit set made the round trip
C17_Witness ==
  /\ conv.pc = "array"
  /\ conv.version = 4
  /\ conv.array = <<255, 10, 0, 255>>
  /\ conv.back = conv.array

(***************************************************************************)
(* Binary and hex strings                                                  *)
(***************************************************************************)
\* the string handed to fromBinaryString / fromHexString is made of exactly
\* totalBits binary digits / totalBits / 4 hex digits
IsDigitString ==
  LET radix == IF conv.op = "fromBinaryString" THEN 2 ELSE 16
      length == IF conv.op = "fromBinaryString" THEN totalBits(conv.version)
                ELSE totalBits(conv.version) \div 4
  IN  /\ Len(conv.string) = length
      /\ \A i \in 1..Len(conv.string) : DigitValue(conv.string[i], radix) >= 0

\* C18: fromBinaryString / fromHexString accept a string only if it is made
\* of exactly totalBits binary digits / totalBits / 4 hex digits, and then
\* toBinaryString / toHexString give the string back; every other string
\* (wrong length, a character that is no digit, white space counted into the
\* length) raises the IncorrectAddressError incorrect-binary-string
C18_DigitStrings ==
  /\ conv.pc \in {"address", "digits"} => IsDigitString
  /\ conv.pc = "refused" =>
       /\ ~IsDigitString
       /\ conv.result.error = "IncorrectAddressError"
       /\ conv.result.type = "incorrect-binary-string"
  /\ conv.pc = "digits" => conv.text = ToLowerCase(conv.string)

(***************************************************************************)
(* Parsing properties                                                      *)
(***************************************************************************)
DecimalDigits == {"0", "1", "2", "3", "4", "5", "6", "7", "8", "9"}

\* a non-empty decimal integer literal in 0..255
IsOctetLiteral(token) ==
  /\ token # <<>>
  /\ \A i \in 1..Len(token) : token[i] \in DecimalDigits
  /\ DigitsValue(token, 10, 0) <= 255

\* C19: parseIPv4Address returns an array only for exactly 4 tokens separated
\* by dots, each a non-empty decimal integer literal in 0..255; any other
\* number of tokens, any token that is not a plain decimal integer (empty,
\* hexadecimal, exponent notation, white space) and any value out of range
\* raises IncorrectAddressError (incorrect-format or incorrect-item)
C19_ParseIPv4 ==
  (conv.pc = "text" /\ conv.version = 4) =>
    LET tokens == Split(conv.string, ".")
        wellFormed == Len(tokens) = 4 /\ \A i \in 1..4 : IsOctetLiteral(tokens[i])
    IN  IF wellFormed
        THEN /\ conv.parsed.ok
             /\ conv.parsed.value =
                  Force([i \in 1..4 |-> DigitsValue(tokens[i], 10, 0)])
        ELSE /\ ~conv.parsed.ok
             /\ conv.parsed.error = "IncorrectAddressError"
             /\ conv.parsed.type \in {"incorrect-format", "incorrect-item"}

\* a group of one to four hex digits
IsHexGroup(group) ==
  /\ Len(group) \in 1..4
  /\ \A i \in 1..Len(group) : DigitValue(group[i], 16) >= 0

\* the groups of a text without "::", none when the text is empty
GroupsOf(text) == IF text = <<>> THEN <<>> ELSE Split(text, ":")

\* the groups the text denotes, "::" standing for as many zero groups as
\* are missing; <<>> when the text denotes no eight groups
DenotedGroups(text) ==
  LET shortcuts == {i \in 1..(Len(text) - 1) : text[i] = ":" /\ text[i + 1] = ":"}
      at == CHOOSE i \in shortcuts : TRUE
      before == GroupsOf(SubSeq(text, 1, at - 1))
      after == GroupsOf(SubSeq(text, at + 2, Len(text)))
      zero == <<"0">>
  IN  IF shortcuts = {}
      THEN (IF Len(GroupsOf(text)) = 8 /\ \A i \in 1..8 : IsHexGroup(GroupsOf(text)[i])
            THEN GroupsOf(text) ELSE <<>>)
      ELSE IF Cardinality(shortcuts) > 1 THEN <<>>
      ELSE IF /\ Len(before) + Len(after) <= 7
              /\ \A i \in 1..Len(before) : IsHexGroup(before[i])
              /\ \A i \in 1..Len(after) : IsHexGroup(after[i])
      THEN before \o Force([i \in 1..(8 - Len(before) - Len(after)) |-> zero]) \o after
      ELSE <<>>

\* C20: parseIPv6Address returns an array only when the text denotes exactly
\* 8 groups of 1 to 4 hex digits after at most one "::" is expanded into one
\* or more zero groups; fewer than 8 groups without "::", more than 8
\* groups, a group of more than 4 hex digits or a second "::" raise
\* IncorrectAddressError, and missing groups are never filled with zeros
C20_ParseIPv6 ==
  (conv.pc = "text" /\ conv.version = 6) =>
    IF DenotedGroups(conv.string) # <<>>
    THEN /\ conv.parsed.ok
         /\ conv.parsed.value =
              Force([i \in 1..8 |-> DigitsValue(DenotedGroups(conv.string)[i], 16, 0)])
    ELSE /\ ~conv.parsed.ok
         /\ conv.parsed.error = "IncorrectAddressError"

(***************************************************************************)
(* Properties of addresses made from text                                  *)
(***************************************************************************)
\* C21: isValidAddress(text) returns true exactly when ip(text) returns an
\* address without raising, for dotted-decimal, colon-hex, IPv4-mapped and
\* ip6.arpa texts alike
C21_IsValidAddressIsIp ==
  (obj.pc = "returned" /\ obj.op = "isValidAddress")
    => (obj.result <=> ip(obj.text).ok)

\* ip(text) has returned or thrown
IpCalled == obj.pc \in {"address", "thrown"} /\ obj.op = "ip"

\* ip(text) returned an address of the version with the words of the address
IpReturned(made) ==
  /\ obj.pc = "address"
  /\ obj.this.version = made.value.version
  /\ obj.this.array = made.value.array

\* C22: ip(text) only dispatches: on every text that IPv6Address.fromString
\* accepts it returns an IPv6 address with the same words (the texts of
\* addresses with the words 0,0,0,0,0,0xffff in front included), and on every
\* text that IPv4Address.fromString accepts it returns an equal IPv4 address
C22_IpOnlyDispatches ==
  IpCalled =>
    /\ IPv6Address_fromString(obj.text).ok
         => IpReturned(IPv6Address_fromString(obj.text))
    /\ IPv4Address_fromString(obj.text).ok
         => IpReturned(IPv4Address_fromString(obj.text))

\* a hex nibble, in either case
HexNibbles == {HexDigits[i] : i \in 1..16} \cup {"A", "B", "C", "D", "E", "F"}

\* exactly 32 single hex nibbles, dot-separated, plus ".ip6.arpa"
IsIP6ArpaName(text) ==
  /\ Len(text) = 72
  /\ \A k \in 1..32 : text[2 * k - 1] \in HexNibbles
  /\ \A k \in 1..31 : text[2 * k] = "."
  /\ SubSeq(text, 64, 72) = DotIp6Arpa

FromIP6ArpaStringCalled ==
  obj.pc \in {"address", "thrown"} /\ obj.op = "fromIP6ArpaString"

\* toIP6ArpaString returns the 32 nibbles least-significant first, and
\* fromIP6ArpaString of that string has the words of the address
IP6ArpaRoundTrip ==
  /\ (obj.pc = "address" /\ obj.call = "toIP6ArpaString")
       => obj.returned[1] = Ip6ArpaString(obj.this.array)
  /\ (FromIP6ArpaStringCalled /\ obj.origin # <<>>)
       => (obj.pc = "address" /\ obj.this.array = obj.origin)

IP6ArpaRaised ==
  obj.pc = "thrown" /\ obj.error = "IncorrectAddressError"

PrefixWord(version, n, i) ==
  LET bits == bitsByItem(version)
      ones == IF n >= i * bits THEN bits
              ELSE IF n <= (i - 1) * bits THEN 0
              ELSE n - (i - 1) * bits
  IN  2 ^ bits - 2 ^ (bits - ones)

IsPrefixMask(version, W) ==
  /\ Len(W) = arrayLength(version)
  /\ \A i \in 1..Len(W) : W[i] >= 0 /\ W[i] <= itemMax(version)
  /\ \E n \in 0..totalBits(version) :
       /\ W = CIDR_TO_MASK(version)[n]
       /\ \A i \in 1..Len(W) : W[i] = PrefixWord(version, n, i)

IsCorrectSubmaskReturned ==
  sm.pc = "checked" /\ sm.op = "isCorrectSubmask"

\* C24: isCorrectSubmask(version, W) reports valid exactly when W has the
\* word count of the version, every word is in [0, itemMax], and W is the
\* precomputed mask of some prefix length in [0, totalBits]: all-ones words,
\* then at most one partial-prefix word, then only zero words.
C24_IsCorrectSubmask ==
  IsCorrectSubmaskReturned
    => (sm.result.valid <=> IsPrefixMask(sm.version, sm.arg))

\* [255,240,0,0] is reported valid
C24_Witness ==
  /\ IsCorrectSubmaskReturned
  /\ sm.version = 4
  /\ sm.arg = <<255, 240, 0, 0>>
  /\ sm.result.valid

(***************************************************************************)
(* Properties of the accessors of an address                               *)
(***************************************************************************)
Representations == {"string", "uint", "byteArray", "binaryString", "hexString"}

\* C25: on every address instance each derived representation (string,
\* unsigned integer, byte array, binary string, hex string) is computed at
\* most once, whatever the sequence of accessor calls.
C25_ComputedAtMostOnce ==
  obj.pc = "address"
    => \A name \in Representations : obj.computed[name] <= 1

(***************************************************************************)
(* Properties of the objects a context hands out                           *)
(***************************************************************************)
DerivedAddressReturned ==
  ctx.pc = "context" /\ ret.op \in {"network", "firstHost", "lastHost", "broadcast"}

\* C26: every address derived by a context (network, firstHost, lastHost,
\* broadcast) is internally consistent: toUint() is the big-endian packing
\* of its word array and lies in [0, 2^totalBits).
C26_InternallyConsistent ==
  DerivedAddressReturned =>
    /\ UintOf(ret.value) = BigEndianValue(ctx.this.version, ret.value.array)
    /\ NumLess(UintOf(ret.value), Pow2(totalBits(ctx.this.version)))

(***************************************************************************)
(* Submasks of equal word arrays                                           *)
(***************************************************************************)
\* what the getters cidr, size and hosts of a submask report
Reported(this) ==
  LET read(after) == <<after._cidr[1], after._size[1], after._hosts[1]>>
  IN  read(Submask_hosts(Submask_size(Submask_cidr(this))))

\* C27: two submasks of the same version with equal word arrays report the
\* same cidr, size and hosts whichever factory made them: a submask reports
\* what the submask constructed from its word array reports, and
\* fromHosts(H).hosts is fromCidr(fromHosts(H).cidr).hosts for every
\* accepted H.
C27_SameArraySameReport ==
  sm.pc = "object" =>
    /\ Reported(sm.result.value)
         = Reported(NewSubmask(sm.version, sm.result.value.array, FALSE,
                               NoKnownProperties).value)
    /\ sm.op = "fromHosts" =>
         HostsOf(sm.result.value)
           = HostsOf(Submask_fromCidr(sm.version,
                                      Submask_cidr(sm.result.value)._cidr[1]).value)

\* C28: for every context and every candidate address c of its version,
\* isHost(c) implies includes(c): no address outside the network is reported
\* as an available host.
C28_HostsAreIncluded ==
  (ctx.pc = "context" /\ ret.op = "isHost" /\ ret.value) =>
    Context_includes(ctx.this, Candidate(ctx.this.version, ret.arg)).value

\* C29: in every context whose hosts count is at least 1, firstHost <=
\* lastHost as unsigned integers, and includes(firstHost) and
\* includes(lastHost) are true.
C29_FirstHostToLastHost ==
  (/\ ctx.pc = "context"
   /\ ctx.this._firstHost # Undefined
   /\ ctx.this._lastHost # Undefined
   /\ NumLeq(NumOfInt(1), Context_hosts(ctx.this))) =>
    /\ NumLeq(UintOf(ctx.this._firstHost[1]), UintOf(ctx.this._lastHost[1]))
    /\ Context_includes(ctx.this, ctx.this._firstHost[1]).value
    /\ Context_includes(ctx.this, ctx.this._lastHost[1]).value

\* C30: IPv6Address.getType() returns "Loopback" for the loopback address
\* ::1: every address for which isLoopback() is true is typed "Loopback".
C30_LoopbackIsTypedLoopback ==
  (/\ obj.pc = "address"
   /\ obj.call = "getType"
   /\ IPv6Address_isLoopback(obj.this)) =>
    obj.returned[1] = "Loopback"

=============================================================================
